---- MODULE Spec2Model ----
(***************************************************************************)
(* OrionTax Sync: a model of the transfer paths (scheduled and manual),    *)
(* of the local execution log, of the two bulk write protocols             *)
(* (cloud-side upsert, enterprise-side truncate-and-reload), of the        *)
(* application shell (login, main window, tray, quit), of the schedule     *)
(* registry and its scheduler jobs, and of the local store (connections,   *)
(* configuration rows, client rows).                                       *)
(***************************************************************************)
EXTENDS Integers, Sequences, FiniteSets, TLC

(***************************************************************************)
(* Bounds of the model.                                                    *)
(***************************************************************************)
MaxRuns == 2         \* transfer runs (per-client threads and manual workers) ever started
MaxSourceRows == 1   \* rows the four frames of one read hold in total
MaxTmpRows == 1      \* rows of one frame written to an enterprise staging table
MaxWriters == 2      \* connections that write to one database at overlapping times
MaxFrameRows == 2    \* rows of one frame sent to a cloud table
MaxSaves == 4        \* calls of save_oriontax_config
MaxTests == 2        \* OracleClient objects test_connection is called on

(***************************************************************************)
(* Vocabulary of the program.                                              *)
(***************************************************************************)
OpTypes == {"ENVIAR", "BUSCAR"}
Clients == {"c1", "c2"}
ScheduleIds == {1, 2}
FrameKeys == <<"icms_entrada", "icms_saida", "pis_cofins", "cbs_ibs">>

VARIABLES
    \* ---- local store (config/database.py) ----
    config_oracle,      \* TRUE iff config_oracle holds an active row
    config_oriontax,    \* TRUE iff config_oriontax holds an active row
    clientes,           \* [Clients -> BOOLEAN]: the is_active flag of each client row
    agendamentos,       \* [ScheduleIds -> row]: tipo_operacao, is_active, ultima_execucao
    logs_execucao,      \* sequence of execution-log rows
    \* ---- scheduler (core/scheduler.py) ----
    jobs,               \* ids of the schedules registered as jobs
    threads,            \* sequence of the per-client transfer threads ever started
    fire_log,           \* the last line _execute_sync wrote to the text logger
    clock,              \* number of fires that stamped ultima_execucao so far
    \* ---- main window (gui/main_window.py) ----
    worker,             \* the WorkerThread of the last manual operation
    finished_signal,    \* finished(success, message, stats) signals not yet delivered
    send_button,        \* enabled flag of the send button
    receive_button,     \* enabled flag of the receive button
    last_warning,       \* title of the last warning box execute_operation showed
    manual_runs,        \* number of manual workers started so far
    \* ---- enterprise database (core/oracle_client.py) ----
    tmp_tables,         \* [staging table -> committed rows]
    ora_sessions,       \* [writer -> its connection and its open transaction]
    \* ---- cloud database (core/oriontax_client.py) ----
    pg_tables,          \* [cloud table -> committed rows]
    pg_constraint,      \* [cloud table -> the unique constraint on the key exists]
    pg_columns,         \* [cloud table -> names of its columns]
    pg_maxlen,          \* [cloud table -> character_maximum_length of its text columns]
    pg_sessions,        \* [writer -> its connection and its open transaction]
    \* ---- application shell (main.py) ----
    app_pc,             \* where the main thread is: "login", "run", "exec", "exited"
    login_dialog,       \* the LoginDialog that is open: its request and its result
    initial_login,      \* how the initial LoginDialog ended
    main_window,        \* "none" (not created), "visible", "hidden"
    tray_icon,          \* the tray icon is shown
    tray_message,       \* the last balloon tray_icon.showMessage displayed
    scheduler_running,  \* the BackgroundScheduler has been started and not shut down
    db_conn,            \* db_manager.conn is an open connection
    \* ---- local store, in full (config/database.py) ----
    sqlite_sequence,    \* the AUTOINCREMENT counter of table agendamentos
    store_calls,        \* [thread -> the local-store call it is in]
    handle_users,       \* the threads that have used db_manager.conn
    private_conns,      \* the threads that own a private connection left open
    config_oriontax_table,   \* rows of config_oriontax as db_manager.conn sees them
    config_oriontax_durable, \* rows of config_oriontax as committed
    save_results,       \* what the calls of save_oriontax_config returned, in order
    clientes_table,     \* rows of table clientes: id, cnpj, is_active
    cliente_result,     \* what the last call on table clientes returned
    \* ---- connection test (core/oracle_client.py) ----
    test_clients,       \* the OracleClient objects test_connection is called on
    \* ---- accounts, dialogs and clients followed on their own ----
    usuarios,           \* [username -> row of table usuarios]
    password_result,    \* what the last call of change_password returned
    schedule_dialog,    \* the ScheduleDialog: radio button, day_spin, what it saved
    oracle_client,      \* the OracleClient connect() is called on
    cell,               \* a cell on its way through the enterprise write path
    config_oracle_table,   \* rows of table config_oracle
    oracle_saved,       \* the labels save_oracle_config succeeded for, in order
    recent_logs         \* what the last call of get_logs_recentes returned

vars == <<config_oracle, config_oriontax, clientes, agendamentos, logs_execucao,
          jobs, threads, fire_log, clock,
          worker, finished_signal, send_button, receive_button, last_warning,
          manual_runs, tmp_tables, ora_sessions,
          pg_tables, pg_constraint, pg_columns, pg_maxlen, pg_sessions,
          app_pc, login_dialog, initial_login, main_window, tray_icon,
          tray_message, scheduler_running, db_conn,
          sqlite_sequence, store_calls, handle_users, private_conns,
          config_oriontax_table, config_oriontax_durable, save_results,
          clientes_table, cliente_result, test_clients,
          usuarios, password_result, schedule_dialog, oracle_client, cell,
          config_oracle_table, oracle_saved, recent_logs>>

storeVars == <<config_oracle, config_oriontax, clientes, agendamentos, logs_execucao>>
schedVars == <<jobs, threads, fire_log, clock>>
uiVars == <<worker, finished_signal, send_button, receive_button, last_warning,
           manual_runs>>
appVars == <<storeVars, schedVars, uiVars>>
oraVars == <<tmp_tables, ora_sessions>>
pgVars == <<pg_tables, pg_constraint, pg_columns, pg_maxlen, pg_sessions>>
dbVars == <<oraVars, pgVars>>
shellVars == <<app_pc, login_dialog, initial_login, main_window, tray_icon,
              tray_message, scheduler_running, db_conn>>
accessVars == <<store_calls, handle_users, private_conns>>
configVars == <<config_oriontax_table, config_oriontax_durable, save_results>>
clienteVars == <<clientes_table, cliente_result>>
accountVars == <<usuarios, password_result>>
oracleConfigVars == <<config_oracle_table, oracle_saved>>
extraVars == <<accountVars, schedule_dialog, oracle_client, cell, oracleConfigVars,
              recent_logs>>
detailVars == <<sqlite_sequence, accessVars, configVars, clienteVars, test_clients>>
localVars == <<detailVars, extraVars>>

(***************************************************************************)
(* Helpers.                                                                *)
(***************************************************************************)
RECURSIVE SumSeq(_)
SumSeq(s) == IF s = <<>> THEN 0 ELSE Head(s) + SumSeq(Tail(s))

\* SELECT * FROM clientes WHERE is_active = 1 ORDER BY nome
\* A registry read that does not filter on is_active.
AllClients == Clients

ActiveClients == {c \in Clients : clientes[c]}

RECURSIVE OrderByNome(_)
OrderByNome(S) ==
    IF S = {} THEN <<>>
    ELSE LET c == CHOOSE x \in S : \A y \in S : (x = "c1") \/ (y # "c1")
         IN <<c>> \o OrderByNome(S \ {c})

\* The source and the destination system of each direction.
SourceOf(op) == IF op = "ENVIAR" THEN "oracle" ELSE "oriontax"
DestOf(op) == IF op = "ENVIAR" THEN "oriontax" ELSE "oracle"

(***************************************************************************)
(* One transfer run (the body of WorkerThread.run and of                   *)
(* Scheduler._execute_sync_for_client up to the point where the outcome is *)
(* reported).  A run is a record:                                          *)
(*   op, cliente      the arguments                                        *)
(*   pc               the next step                                        *)
(*   total_records    sum(len(df) for df in dataframes.values())           *)
(*   open             the external connections the run holds open          *)
(*   success          the success flag the destination write returned      *)
(*   ext              what the external systems did to this run            *)
(*   logged           indices of the log rows this run appended            *)
(*   outcome          the outcome the run reported: "success" or "failure"  *)
(* The except handlers read neither dataframes nor total_records, so       *)
(* total_records is dropped (set to 0) when an exception is raised.         *)
(***************************************************************************)
NewRun(op, c) ==
    [op |-> op, cliente |-> c, pc |-> "connect_src", total_records |-> 0,
     open |-> {}, success |-> FALSE, ext |-> "pending", logged |-> {},
     outcome |-> "none"]

IdleRun == [NewRun("ENVIAR", "c1") EXCEPT !.pc = "idle"]

\* The values sum(len(df) for df in dataframes.values()) can take.
ReadTotals ==
    {SumSeq(lens) : lens \in {l \in [1..Len(FrameKeys) -> 0..MaxSourceRows] :
                                  SumSeq(l) <= MaxSourceRows}}

\* The outcomes the destination write can hand back to the run.
\* write_dataframes_to_views returns (True, msg) or (False, msg), and raises
\* only when its own rollback raises; write_dataframes_to_tmp_tables returns
\* (True, msg) or raises.
WriteOutcomes(op) ==
    IF op = "ENVIAR" THEN {"write_true", "write_false", "write_error"}
    ELSE {"write_true", "write_error"}

TransferStep(r) ==
    CASE r.pc = "connect_src" ->
            {[r EXCEPT !.pc = "read", !.open = @ \cup {SourceOf(r.op)}],
             [r EXCEPT !.pc = "except", !.ext = "connect_src_error"]}
      [] r.pc = "read" ->
            \* the read returns and the source is disconnected, or the read raises
            {[r EXCEPT !.pc = "connect_dst", !.total_records = n,
                       !.open = @ \ {SourceOf(r.op)}] : n \in ReadTotals}
            \cup {[r EXCEPT !.pc = "except", !.ext = "read_error"]}
      [] r.pc = "connect_dst" ->
            {[r EXCEPT !.pc = "write", !.open = @ \cup {DestOf(r.op)}],
             [r EXCEPT !.pc = "except", !.ext = "connect_dst_error", !.total_records = 0]}
      [] r.pc = "write" ->
            \* the write returns and the destination is disconnected, or it raises
            {IF o = "write_error"
             THEN [r EXCEPT !.pc = "except", !.ext = o, !.total_records = 0]
             ELSE [r EXCEPT !.pc = "report", !.ext = o,
                            !.success = (o = "write_true"),
                            !.open = @ \ {DestOf(r.op)}]
             : o \in WriteOutcomes(r.op)}
      [] OTHER -> {}

(***************************************************************************)
(* Local store: execution log.                                             *)
(***************************************************************************)
LogRow(tipo, status, cliente, registros) ==
    [tipo_operacao |-> tipo, status |-> status, cliente |-> cliente,
     registros_processados |-> registros]

\* add_log_threadsafe: INSERT INTO logs_execucao ...; commit
add_log_threadsafe(tipo, status, cliente, registros) ==
    logs_execucao' = Append(logs_execucao, LogRow(tipo, status, cliente, registros))

\* update_schedule_last_run without its WHERE clause.
update_every_schedule_last_run(op) ==
    agendamentos' = [id \in DOMAIN agendamentos |->
        [agendamentos[id] EXCEPT !.ultima_execucao = clock + 1]]

\* update_schedule_last_run: UPDATE agendamentos SET ultima_execucao = now
\*                           WHERE tipo_operacao = ?
update_schedule_last_run(op) ==
    agendamentos' = [id \in DOMAIN agendamentos |->
        IF agendamentos[id].tipo_operacao = op
        THEN [agendamentos[id] EXCEPT !.ultima_execucao = clock + 1]
        ELSE agendamentos[id]]

(***************************************************************************)
(* Scheduler.                                                              *)
(***************************************************************************)

\* A fire that starts the per-client threads without looking at the configurations.
ExecuteSyncUnchecked(id) ==
    LET op == agendamentos[id].tipo_operacao
        clientesAtivos == OrderByNome(ActiveClients)
    IN
    /\ id \in jobs
    /\ Len(threads) + manual_runs + Len(clientesAtivos) <= MaxRuns
    /\ threads' = threads \o
           [i \in 1..Len(clientesAtivos) |-> NewRun(op, clientesAtivos[i])]
    /\ update_schedule_last_run(op)
    /\ clock' = clock + 1
    /\ fire_log' = "Sincronização agendada iniciada"
    /\ UNCHANGED <<config_oracle, config_oriontax, clientes, logs_execucao, jobs>>
    /\ UNCHANGED uiVars
    /\ UNCHANGED dbVars
    /\ UNCHANGED <<shellVars, localVars>>

\* Scheduler._execute_sync, called by the job of schedule id.
ExecuteSync(id) ==
    LET op == agendamentos[id].tipo_operacao
        clientesAtivos == OrderByNome(ActiveClients)
    IN
    /\ id \in jobs
    /\ IF ~config_oracle
       THEN /\ fire_log' = "Configuração Oracle não encontrada"
            /\ UNCHANGED <<threads, agendamentos, clock>>
       ELSE IF ~config_oriontax
       THEN /\ fire_log' = "Configuração OrionTax não encontrada"
            /\ UNCHANGED <<threads, agendamentos, clock>>
       ELSE IF clientesAtivos = <<>>
       THEN /\ fire_log' = "Nenhum cliente cadastrado"
            /\ UNCHANGED <<threads, agendamentos, clock>>
       ELSE /\ Len(threads) + manual_runs + Len(clientesAtivos) <= MaxRuns
            /\ threads' = threads \o
                   [i \in 1..Len(clientesAtivos) |-> NewRun(op, clientesAtivos[i])]
            /\ update_schedule_last_run(op)
            /\ clock' = clock + 1
            /\ fire_log' = "Sincronização agendada iniciada"
    /\ UNCHANGED <<config_oracle, config_oriontax, clientes, logs_execucao, jobs>>
    /\ UNCHANGED uiVars
    /\ UNCHANGED dbVars
    /\ UNCHANGED <<shellVars, localVars>>

\* One step of the body of _execute_sync_for_client, thread i.
ClientThreadStep(i) ==
    /\ i \in DOMAIN threads
    /\ \E r \in TransferStep(threads[i]) : threads' = [threads EXCEPT ![i] = r]
    /\ UNCHANGED <<jobs, fire_log, clock>>
    /\ UNCHANGED storeVars
    /\ UNCHANGED uiVars
    /\ UNCHANGED dbVars
    /\ UNCHANGED <<shellVars, localVars>>

\* The status the per-client runner records once the write has returned.
ClientReportStatus(r) == IF r.success THEN "SUCESSO" ELSE "ERRO"

\* _execute_sync_for_client, lines 305-325 and 353-372: the log row after the write.
ClientThreadReport(i) ==
    /\ i \in DOMAIN threads
    /\ threads[i].pc = "report"
    /\ LET r == threads[i] IN
       /\ add_log_threadsafe(r.op, ClientReportStatus(r), r.cliente,
                             IF r.success THEN r.total_records ELSE 0)
       /\ threads' = [threads EXCEPT ![i].pc = "done",
                                     ![i].logged = @ \cup {Len(logs_execucao) + 1},
                                     ![i].outcome = IF ClientReportStatus(r) = "SUCESSO"
                                                    THEN "success" ELSE "failure"]
    /\ UNCHANGED <<jobs, fire_log, clock>>
    /\ UNCHANGED <<config_oracle, config_oriontax, clientes, agendamentos>>
    /\ UNCHANGED uiVars
    /\ UNCHANGED dbVars
    /\ UNCHANGED <<shellVars, localVars>>


\* An outermost except that swallows the exception without recording it.
ClientThreadExceptSilent(i) ==
    /\ i \in DOMAIN threads
    /\ threads[i].pc = "except"
    /\ threads' = [threads EXCEPT ![i].pc = "done", ![i].outcome = "failure"]
    /\ UNCHANGED <<jobs, fire_log, clock>>
    /\ UNCHANGED storeVars
    /\ UNCHANGED uiVars
    /\ UNCHANGED dbVars
    /\ UNCHANGED <<shellVars, localVars>>

\* _execute_sync_for_client, lines 374-384: the outermost except.
ClientThreadExcept(i) ==
    /\ i \in DOMAIN threads
    /\ threads[i].pc = "except"
    /\ LET r == threads[i] IN
       /\ add_log_threadsafe(r.op, "ERRO", r.cliente, 0)
       /\ threads' = [threads EXCEPT ![i].pc = "done",
                                     ![i].logged = @ \cup {Len(logs_execucao) + 1},
                                     ![i].outcome = "failure"]
    /\ UNCHANGED <<jobs, fire_log, clock>>
    /\ UNCHANGED <<config_oracle, config_oriontax, clientes, agendamentos>>
    /\ UNCHANGED uiVars
    /\ UNCHANGED dbVars
    /\ UNCHANGED <<shellVars, localVars>>

(***************************************************************************)
(* Main window: manual operations.                                         *)
(***************************************************************************)
\* MainWindow.execute_operation(operation_type); current is client_combo.currentData()
\* ("none" when the combo is empty), reply the answer to the confirmation box.
ExecuteOperation(op, current, reply) ==
    /\ IF op = "ENVIAR" THEN send_button ELSE receive_button
    /\ IF ~config_oracle \/ ~config_oriontax
       THEN /\ last_warning' = "Configuração Pendente"
            /\ UNCHANGED <<worker, send_button, receive_button, manual_runs>>
       ELSE IF current = "none"
       THEN /\ last_warning' = "Cliente Não Selecionado"
            /\ UNCHANGED <<worker, send_button, receive_button, manual_runs>>
       ELSE IF reply = "No"
       THEN UNCHANGED <<worker, send_button, receive_button, last_warning, manual_runs>>
       ELSE /\ Len(threads) + manual_runs < MaxRuns
            /\ UNCHANGED last_warning
            /\ send_button' = FALSE
            /\ receive_button' = FALSE
            /\ worker' = NewRun(op, current)
            /\ manual_runs' = manual_runs + 1
    /\ UNCHANGED finished_signal
    /\ UNCHANGED storeVars
    /\ UNCHANGED schedVars
    /\ UNCHANGED dbVars
    /\ UNCHANGED <<shellVars, localVars>>

\* One step of the body of WorkerThread.run.
WorkerStep ==
    /\ \E r \in TransferStep(worker) : worker' = r
    /\ UNCHANGED <<finished_signal, send_button, receive_button, last_warning, manual_runs>>
    /\ UNCHANGED storeVars
    /\ UNCHANGED schedVars
    /\ UNCHANGED dbVars
    /\ UNCHANGED <<shellVars, localVars>>

\* The success flag WorkerThread.run emits once the write has returned
\* (lines 72 and 103: the flag is the literal True).
WorkerReportSuccess(r) == TRUE

\* WorkerThread.run, lines 67-72 and 98-103: finished.emit after the write.
WorkerReport ==
    /\ worker.pc = "report"
    /\ finished_signal' = Append(finished_signal,
           [success |-> WorkerReportSuccess(worker), registros |-> worker.total_records])
    /\ worker' = [worker EXCEPT !.pc = "done",
                                !.outcome = IF WorkerReportSuccess(worker)
                                            THEN "success" ELSE "failure"]
    /\ UNCHANGED <<send_button, receive_button, last_warning, manual_runs>>
    /\ UNCHANGED storeVars
    /\ UNCHANGED schedVars
    /\ UNCHANGED dbVars
    /\ UNCHANGED <<shellVars, localVars>>

\* WorkerThread.run, lines 105-108: the outermost except.
WorkerExcept ==
    /\ worker.pc = "except"
    /\ finished_signal' = Append(finished_signal, [success |-> FALSE, registros |-> 0])
    /\ worker' = [worker EXCEPT !.pc = "done", !.outcome = "failure"]
    /\ UNCHANGED <<send_button, receive_button, last_warning, manual_runs>>
    /\ UNCHANGED storeVars
    /\ UNCHANGED schedVars
    /\ UNCHANGED dbVars
    /\ UNCHANGED <<shellVars, localVars>>

\* on_worker_finished as it would be with the buttons re-enabled in the
\* success branch only.
OnWorkerFinishedOnSuccess ==
    /\ finished_signal # <<>>
    /\ send_button' = (send_button \/ Head(finished_signal).success)
    /\ receive_button' = (receive_button \/ Head(finished_signal).success)
    /\ finished_signal' = Tail(finished_signal)
    /\ UNCHANGED <<worker, last_warning, manual_runs>>
    /\ UNCHANGED storeVars
    /\ UNCHANGED schedVars
    /\ UNCHANGED dbVars
    /\ UNCHANGED <<shellVars, localVars>>

\* MainWindow.on_worker_finished(success, message, stats), on the UI thread.
OnWorkerFinished ==
    /\ finished_signal # <<>>
    /\ send_button' = TRUE
    /\ receive_button' = TRUE
    /\ finished_signal' = Tail(finished_signal)
    /\ UNCHANGED <<worker, last_warning, manual_runs>>
    /\ UNCHANGED storeVars         \* load_logs only reads logs_execucao
    /\ UNCHANGED schedVars
    /\ UNCHANGED dbVars
    /\ UNCHANGED <<shellVars, localVars>>

(***************************************************************************)
(* Configuration dialogs (gui/settings.py -> config/database.py).          *)
(***************************************************************************)
\* save_oracle_config: afterwards config_oracle holds an active row.
SaveOracleConfig ==
    /\ ~config_oracle
    /\ config_oracle' = TRUE
    /\ UNCHANGED <<config_oriontax, clientes, agendamentos, logs_execucao>>
    /\ UNCHANGED schedVars
    /\ UNCHANGED uiVars
    /\ UNCHANGED dbVars
    /\ UNCHANGED <<shellVars, localVars>>

\* save_oriontax_config: deactivates the old rows and inserts one active row.
SaveOrionTaxConfig ==
    /\ ~config_oriontax
    /\ config_oriontax' = TRUE
    /\ UNCHANGED <<config_oracle, clientes, agendamentos, logs_execucao>>
    /\ UNCHANGED schedVars
    /\ UNCHANGED uiVars
    /\ UNCHANGED dbVars
    /\ UNCHANGED <<shellVars, localVars>>

(***************************************************************************)
(* Enterprise database: the staging tables and the truncate-and-reload     *)
(* write (OracleClient.write_dataframes_to_tmp_tables).                    *)
(*                                                                         *)
(* Every writer has its own connection (each run builds its own            *)
(* OracleClient), autocommit off, isolation READ COMMITTED: a DELETE sees  *)
(* the rows committed when it runs, never the uncommitted inserts of       *)
(* another connection, and waits while another open transaction has        *)
(* deleted rows of the same table.  A DELETE that has waited either        *)
(* restarts on the rows committed by then or deletes those of the rows it  *)
(* had selected that are still there (all of them when the other           *)
(* transaction was rolled back, none when it committed): both outcomes are *)
(* kept.                                                                   *)
(*                                                                         *)
(* A staging row is <<w, k>>: the k-th row of the frame writer w carried;  *)
(* rows <<0, k>> were there before any writer of the model started.        *)
(***************************************************************************)
TmpTables ==
    <<"MXF_TMP_ICMS_ENTRADA", "MXF_TMP_ICMS_SAIDA", "MXF_TMP_PIS_COFINS",
      "MXF_TMP_CBS_IBS">>

TmpTableNames == {TmpTables[i] : i \in DOMAIN TmpTables}

Writers == 1..MaxWriters

NoTmpRows == [t \in TmpTableNames |-> {}]

TmpRows(w, n) == {<<w, k>> : k \in 1..n}

\* A connection on which write_dataframes_to_tmp_tables has not been called yet.
\*   pc, idx    the next statement: the idx-th DELETE, or the idx-th entry of
\*              table_map (idx is 1 again once the call has ended)
\*   n          the number of rows each frame of the call holds
\*   dels, ins  the rows the open transaction has deleted and inserted
\*   waited     the current DELETE has been waiting for a row lock
\*   selected   the rows that DELETE had selected when it began to wait
\*   failed_at  the statement that raised
IdleOraSession ==
    [pc |-> "idle", idx |-> 1, n |-> 0, dels |-> NoTmpRows, ins |-> NoTmpRows,
     waited |-> FALSE, selected |-> {}, failed_at |-> "none"]

\* Another open transaction holds row locks on table t.
TmpLocked(w, t) == \E y \in Writers \ {w} : ora_sessions[y].dels[t] # {}

\* write_dataframes_to_tmp_tables(dataframes) is entered (the connection is
\* open); each of the four frames holds n rows.
WriteTmpBegin(w) ==
    /\ ora_sessions[w].pc = "idle"
    /\ \E n \in 0..MaxTmpRows :
          ora_sessions' = [ora_sessions EXCEPT ![w].pc = "delete", ![w].n = n]
    /\ UNCHANGED tmp_tables
    /\ UNCHANGED appVars
    /\ UNCHANGED <<shellVars, localVars>>
    /\ UNCHANGED pgVars

\* cursor.execute("DELETE FROM <table>") finds rows locked by another transaction.
TmpDeleteWait(w) ==
    LET s == ora_sessions[w] IN
    /\ s.pc = "delete"
    /\ ~s.waited
    /\ TmpLocked(w, TmpTables[s.idx])
    /\ ora_sessions' = [ora_sessions EXCEPT
           ![w].waited = TRUE, ![w].selected = tmp_tables[TmpTables[s.idx]]]
    /\ UNCHANGED tmp_tables
    /\ UNCHANGED appVars
    /\ UNCHANGED <<shellVars, localVars>>
    /\ UNCHANGED pgVars

\* cursor.execute("DELETE FROM <table>"), the idx-th of the four.
TmpDelete(w) ==
    LET s == ora_sessions[w]
        t == TmpTables[s.idx]
        last == s.idx = Len(TmpTables)
    IN
    /\ s.pc = "delete"
    /\ ~TmpLocked(w, t)
    /\ \E gone \in (IF s.waited THEN {tmp_tables[t], tmp_tables[t] \cap s.selected}
                    ELSE {tmp_tables[t]}) :
          ora_sessions' = [ora_sessions EXCEPT
              ![w].dels[t] = gone,
              ![w].waited = FALSE,
              ![w].selected = {},
              ![w].idx = IF last THEN 1 ELSE s.idx + 1,
              ![w].pc = IF last THEN "insert" ELSE "delete"]
    /\ UNCHANGED tmp_tables
    /\ UNCHANGED appVars
    /\ UNCHANGED <<shellVars, localVars>>
    /\ UNCHANGED pgVars

\* One pass of the loop over table_map: an empty frame and the frame of
\* MXF_TMP_ICMS_ENTRADA are skipped, any other frame is inserted by
\* _insert_dataframe_oracle.
TmpInsert(w) ==
    LET s == ora_sessions[w]
        t == TmpTables[s.idx]
        last == s.idx = Len(TmpTables)
    IN
    /\ s.pc = "insert"
    /\ ora_sessions' = [ora_sessions EXCEPT
           ![w].ins[t] = IF t = "MXF_TMP_ICMS_ENTRADA" THEN {} ELSE TmpRows(w, s.n),
           ![w].idx = IF last THEN 1 ELSE s.idx + 1,
           ![w].pc = IF last THEN "commit" ELSE "insert"]
    /\ UNCHANGED tmp_tables
    /\ UNCHANGED appVars
    /\ UNCHANGED <<shellVars, localVars>>
    /\ UNCHANGED pgVars

\* _insert_dataframe_oracle raises: of the rows of the frame the first j
\* have been inserted by the batches and rows that went through.
TmpInsertError(w) ==
    LET s == ora_sessions[w]
        t == TmpTables[s.idx]
    IN
    /\ s.pc = "insert"
    /\ t # "MXF_TMP_ICMS_ENTRADA"
    /\ \E j \in 0..(s.n - 1) :
          ora_sessions' = [ora_sessions EXCEPT
              ![w].ins[t] = TmpRows(w, j),
              ![w].pc = "rollback",
              ![w].failed_at = "insert"]
    /\ UNCHANGED tmp_tables
    /\ UNCHANGED appVars
    /\ UNCHANGED <<shellVars, localVars>>
    /\ UNCHANGED pgVars

\* A DELETE or the final commit raises (the statement has no effect).
TmpStatementError(w) ==
    LET s == ora_sessions[w] IN
    /\ s.pc \in {"delete", "commit"}
    /\ ora_sessions' = [ora_sessions EXCEPT
           ![w].pc = "rollback", ![w].waited = FALSE, ![w].selected = {},
           ![w].failed_at = s.pc]
    /\ UNCHANGED tmp_tables
    /\ UNCHANGED appVars
    /\ UNCHANGED <<shellVars, localVars>>
    /\ UNCHANGED pgVars

\* self.connection.commit(); return True, message
TmpCommit(w) ==
    LET s == ora_sessions[w] IN
    /\ s.pc = "commit"
    /\ tmp_tables' = [t \in TmpTableNames |-> (tmp_tables[t] \ s.dels[t]) \cup s.ins[t]]
    /\ ora_sessions' = [ora_sessions EXCEPT
           ![w].pc = "returned", ![w].idx = 1, ![w].n = 0,
           ![w].dels = NoTmpRows, ![w].ins = NoTmpRows]
    /\ UNCHANGED appVars
    /\ UNCHANGED <<shellVars, localVars>>
    /\ UNCHANGED pgVars


\* An except handler that commits what the transaction has done so far.
TmpRollbackCommitting(w) ==
    LET s == ora_sessions[w] IN
    /\ s.pc = "rollback"
    /\ tmp_tables' = [t \in TmpTableNames |-> (tmp_tables[t] \ s.dels[t]) \cup s.ins[t]]
    /\ ora_sessions' = [ora_sessions EXCEPT
           ![w].pc = "raised", ![w].idx = 1, ![w].n = 0,
           ![w].dels = NoTmpRows, ![w].ins = NoTmpRows]
    /\ UNCHANGED appVars
    /\ UNCHANGED <<shellVars, localVars>>
    /\ UNCHANGED pgVars

\* except: self.connection.rollback(); raise
TmpRollback(w) ==
    LET s == ora_sessions[w] IN
    /\ s.pc = "rollback"
    /\ ora_sessions' = [ora_sessions EXCEPT
           ![w].pc = "raised", ![w].idx = 1, ![w].n = 0,
           ![w].dels = NoTmpRows, ![w].ins = NoTmpRows]
    /\ UNCHANGED tmp_tables
    /\ UNCHANGED appVars
    /\ UNCHANGED <<shellVars, localVars>>
    /\ UNCHANGED pgVars

(***************************************************************************)
(* Cloud database: the destination tables and the upsert write             *)
(* (OrionTaxClient.write_dataframes_to_views).                             *)
(*                                                                         *)
(* Every writer has its own connection (each run builds its own            *)
(* OrionTaxClient), autocommit off, isolation READ COMMITTED.  DDL is      *)
(* transactional: the commit after ALTER TABLE commits everything the      *)
(* transaction has done so far.  A row written by an open transaction      *)
(* blocks the upsert of the same key and the ALTER TABLE of its table in    *)
(* every other connection until the transaction ends.                      *)
(*                                                                         *)
(* A row is [cnpj, codigo_produto, ncm]: the two key columns and one text  *)
(* column that stands for the columns the upsert updates.  A text value is *)
(* a sequence of characters; Null is the SQL NULL / None / NaN.  The cnpj  *)
(* is the 14-digit string the client registry stores, which the cnpj       *)
(* column of every destination table holds in full.                        *)
(***************************************************************************)
PgMapping ==
    <<"mxf_vw_icms_entrada", "mxf_vw_icms", "mxf_vw_pis_cofins", "mxf_vw_cbs_ibs">>

PgTableNames == {PgMapping[i] : i \in DOMAIN PgMapping}

Cnpjs == {"11111111000111", "22222222000122"}

Null == <<"<null>">>

NoLimit == 0    \* the column is not CHAR/VARCHAR or has no declared maximum length

AllColumns == {"cnpj", "codigo_produto", "ncm"}

PgRow(c, k, v) == [cnpj |-> c, codigo_produto |-> k, ncm |-> v]

conflict_cols(r) == <<r.cnpj, r.codigo_produto>>

NoPgRows == [t \in PgTableNames |-> {}]

NoFrames == [t \in PgTableNames |-> <<>>]


\* A write that keeps the cnpj column of the source.
KeepSourceCnpj(df, cnpj) == df

\* df['cnpj'] = cnpj
StampCnpj(df, cnpj) == [i \in DOMAIN df |-> [df[i] EXCEPT !.cnpj = cnpj]]

\* 'codigo_produto' in df.columns
HasCodigoProduto(df) == \A i \in DOMAIN df : "codigo_produto" \in DOMAIN df[i]

\* df[df['codigo_produto'].notna()]
RECURSIVE DropNullCodigo(_)
DropNullCodigo(df) ==
    IF df = <<>> THEN <<>>
    ELSE IF Head(df).codigo_produto = Null THEN DropNullCodigo(Tail(df))
    ELSE <<Head(df)>> \o DropNullCodigo(Tail(df))

\* _filter_dataframe_columns: the frame's columns that the table has; when the
\* column list cannot be obtained the frame is used as it is.
filter_dataframe_columns(t) ==
    IF pg_columns[t] = {} THEN AllColumns ELSE AllColumns \cap pg_columns[t]


\* df.drop_duplicates(subset=key_cols, keep='first')
RECURSIVE remove_duplicates_keep_first(_)
remove_duplicates_keep_first(df) ==
    IF df = <<>> THEN <<>>
    ELSE IF \E j \in 1..(Len(df) - 1) : conflict_cols(df[j]) = conflict_cols(df[Len(df)])
         THEN remove_duplicates_keep_first(SubSeq(df, 1, Len(df) - 1))
         ELSE remove_duplicates_keep_first(SubSeq(df, 1, Len(df) - 1)) \o <<df[Len(df)]>>

\* _remove_duplicates: df.drop_duplicates(subset=key_cols, keep='last')
RECURSIVE remove_duplicates(_)
remove_duplicates(df) ==
    IF df = <<>> THEN <<>>
    ELSE IF \E j \in 2..Len(df) : conflict_cols(df[j]) = conflict_cols(Head(df))
         THEN remove_duplicates(Tail(df))
         ELSE <<Head(df)>> \o remove_duplicates(Tail(df))

\* astype(str)
AsText(v) == IF v = Null THEN <<"N", "o", "n", "e">> ELSE v

\* replace('nan', None)
NanToNone(v) == IF v = <<"n", "a", "n">> THEN Null ELSE v

\* .str[:max_length] where .str.len() > max_length
Cut(v, max_length) ==
    IF v # Null /\ Len(v) > max_length THEN SubSeq(v, 1, max_length) ELSE v

\* What _truncate_string_columns does to one value of a column whose declared
\* maximum length is max_length.
TruncateValue(v, max_length) ==
    IF max_length = NoLimit THEN v ELSE Cut(NanToNone(AsText(v)), max_length)

\* _truncate_string_columns
truncate_string_columns(df, t) ==
    [i \in DOMAIN df |->
        [df[i] EXCEPT
            !.codigo_produto = TruncateValue(@, pg_maxlen[t].codigo_produto),
            !.ncm = TruncateValue(@, pg_maxlen[t].ncm)]]

\* INSERT ... ON CONFLICT (cnpj, codigo_produto) DO UPDATE, once committed.
Upserted(rows, new) ==
    {q \in rows : \A r \in new : conflict_cols(r) # conflict_cols(q)} \cup new

\* A connection on which write_dataframes_to_views(cnpj, dataframes) has not
\* been called yet.
\*   pc, idx   the next step, in the idx-th pass of the loop over mapping
\*   df        the frame of the current pass after the pre-processing
\*   pend      the rows the open transaction has upserted
\*   durable   the rows of this call that a commit has made durable
\*   result    the success flag returned
IdlePgSession(cnpj, dataframes) ==
    [pc |-> "idle", cnpj |-> cnpj, dataframes |-> dataframes, idx |-> 1,
     df |-> <<>>, pend |-> NoPgRows, durable |-> NoPgRows, result |-> FALSE]

PgWriters == DOMAIN pg_sessions

\* The step after the current pass of the loop.
NextPass(s) ==
    IF s.idx = Len(PgMapping)
    THEN [s EXCEPT !.pc = "commit", !.df = <<>>]
    ELSE [s EXCEPT !.pc = "prepare", !.idx = s.idx + 1, !.df = <<>>]

\* write_dataframes_to_views is entered (the connection is open).
WriteViewsBegin(w) ==
    /\ w \in PgWriters
    /\ pg_sessions[w].pc = "idle"
    /\ pg_sessions' = [pg_sessions EXCEPT ![w].pc = "prepare"]
    /\ UNCHANGED <<pg_tables, pg_constraint, pg_columns, pg_maxlen>>
    /\ UNCHANGED oraVars
    /\ UNCHANGED appVars
    /\ UNCHANGED <<shellVars, localVars>>

\* One pass of the loop over mapping, up to the call of
\* upsert_dataframe_psycopg2 (lines 446-515).
ViewsPrepare(w) ==
    LET s == pg_sessions[w]
        t == PgMapping[s.idx]
        raw == s.dataframes[t]
        stamped == StampCnpj(raw, s.cnpj)
        notna == DropNullCodigo(stamped)
        cols == filter_dataframe_columns(t)
        unique == remove_duplicates(notna)
        truncated == truncate_string_columns(unique, t)
    IN
    /\ w \in PgWriters
    /\ s.pc = "prepare"
    /\ pg_sessions' = [pg_sessions EXCEPT ![w] =
          IF raw = <<>> THEN NextPass(s)
          ELSE IF ~HasCodigoProduto(stamped) THEN [s EXCEPT !.pc = "except"]
          ELSE IF notna = <<>> THEN NextPass(s)
          ELSE IF ~({"cnpj", "codigo_produto"} \subseteq cols) THEN NextPass(s)
          ELSE IF cols \ {"cnpj", "codigo_produto"} = {} THEN NextPass(s)
          ELSE [s EXCEPT !.pc = "check", !.df = truncated]]
    /\ UNCHANGED <<pg_tables, pg_constraint, pg_columns, pg_maxlen>>
    /\ UNCHANGED oraVars
    /\ UNCHANGED appVars
    /\ UNCHANGED <<shellVars, localVars>>

\* _ensure_constraint_exists, lines 122-132: SELECT COUNT(*) ... ; exists = count > 0
EnsureConstraintCheck(w) ==
    LET s == pg_sessions[w]
        t == PgMapping[s.idx]
    IN
    /\ w \in PgWriters
    /\ s.pc = "check"
    /\ pg_sessions' = [pg_sessions EXCEPT
           ![w].pc = IF pg_constraint[t] THEN "upsert" ELSE "alter"]
    /\ UNCHANGED <<pg_tables, pg_constraint, pg_columns, pg_maxlen>>
    /\ UNCHANGED oraVars
    /\ UNCHANGED appVars
    /\ UNCHANGED <<shellVars, localVars>>

\* _ensure_constraint_exists, lines 134-145: ALTER TABLE ... ADD CONSTRAINT ...
\* UNIQUE (cnpj, codigo_produto); self.connection.commit()
EnsureConstraintCreate(w) ==
    LET s == pg_sessions[w]
        t == PgMapping[s.idx]
    IN
    /\ w \in PgWriters
    /\ s.pc = "alter"
    /\ ~pg_constraint[t]
    /\ \A q, r \in pg_tables[t] : conflict_cols(q) = conflict_cols(r) => q = r
    /\ \A y \in PgWriters \ {w} : pg_sessions[y].pend[t] = {}
    /\ pg_constraint' = [pg_constraint EXCEPT ![t] = TRUE]
    /\ pg_tables' = [u \in PgTableNames |-> Upserted(pg_tables[u], s.pend[u])]
    /\ pg_sessions' = [pg_sessions EXCEPT
           ![w].pc = "upsert",
           ![w].durable = [u \in PgTableNames |-> s.durable[u] \cup s.pend[u]],
           ![w].pend = NoPgRows]
    /\ UNCHANGED <<pg_columns, pg_maxlen>>
    /\ UNCHANGED oraVars
    /\ UNCHANGED appVars
    /\ UNCHANGED <<shellVars, localVars>>

\* _ensure_constraint_exists, lines 149-152: the check or the ALTER TABLE
\* raises; warning, self.connection.rollback(), and the caller goes on.
EnsureConstraintError(w) ==
    LET s == pg_sessions[w] IN
    /\ w \in PgWriters
    /\ s.pc \in {"check", "alter"}
    /\ pg_sessions' = [pg_sessions EXCEPT ![w].pc = "upsert", ![w].pend = NoPgRows]
    /\ UNCHANGED <<pg_tables, pg_constraint, pg_columns, pg_maxlen>>
    /\ UNCHANGED oraVars
    /\ UNCHANGED appVars
    /\ UNCHANGED <<shellVars, localVars>>

chunk_size == 1000

\* upsert_dataframe_psycopg2, lines 277-295: execute_values per chunk.  Two
\* rows of one chunk with the same key, a missing unique constraint, and a key
\* that another open transaction has written (which makes the statement wait)
\* keep the statement from succeeding.
RECURSIVE ChunksDistinct(_)
ChunksDistinct(df) ==
    IF df = <<>> THEN TRUE
    ELSE LET n == IF Len(df) < chunk_size THEN Len(df) ELSE chunk_size
             chunk == SubSeq(df, 1, n)
         IN /\ \A i, j \in 1..n :
                   conflict_cols(chunk[i]) = conflict_cols(chunk[j]) => i = j
            /\ ChunksDistinct(SubSeq(df, n + 1, Len(df)))

\* The rows a sequence of upserts leaves: for each key the last row.
RECURSIVE LastPerKey(_)
LastPerKey(df) ==
    IF df = <<>> THEN {}
    ELSE Upserted(LastPerKey(SubSeq(df, 1, Len(df) - 1)), {df[Len(df)]})

ViewsUpsert(w) ==
    LET s == pg_sessions[w]
        t == PgMapping[s.idx]
    IN
    /\ w \in PgWriters
    /\ s.pc = "upsert"
    /\ pg_constraint[t]
    /\ ChunksDistinct(s.df)
    /\ \A y \in PgWriters \ {w} : \A q \in pg_sessions[y].pend[t] :
           \A i \in DOMAIN s.df : conflict_cols(q) # conflict_cols(s.df[i])
    /\ pg_sessions' = [pg_sessions EXCEPT ![w] =
           NextPass([s EXCEPT !.pend[t] = Upserted(@, LastPerKey(s.df))])]
    /\ UNCHANGED <<pg_tables, pg_constraint, pg_columns, pg_maxlen>>
    /\ UNCHANGED oraVars
    /\ UNCHANGED appVars
    /\ UNCHANGED <<shellVars, localVars>>

\* upsert_dataframe_psycopg2, lines 300-305: the statement raises.
ViewsUpsertError(w) ==
    LET s == pg_sessions[w] IN
    /\ w \in PgWriters
    /\ s.pc = "upsert"
    /\ pg_sessions' = [pg_sessions EXCEPT ![w].pc = "except"]
    /\ UNCHANGED <<pg_tables, pg_constraint, pg_columns, pg_maxlen>>
    /\ UNCHANGED oraVars
    /\ UNCHANGED appVars
    /\ UNCHANGED <<shellVars, localVars>>

\* write_dataframes_to_views, lines 527-534: self.connection.commit(); return True
ViewsCommit(w) ==
    LET s == pg_sessions[w] IN
    /\ w \in PgWriters
    /\ s.pc = "commit"
    /\ pg_tables' = [u \in PgTableNames |-> Upserted(pg_tables[u], s.pend[u])]
    /\ pg_sessions' = [pg_sessions EXCEPT
           ![w].pc = "returned", ![w].result = TRUE,
           ![w].durable = [u \in PgTableNames |-> s.durable[u] \cup s.pend[u]],
           ![w].pend = NoPgRows]
    /\ UNCHANGED <<pg_constraint, pg_columns, pg_maxlen>>
    /\ UNCHANGED oraVars
    /\ UNCHANGED appVars
    /\ UNCHANGED <<shellVars, localVars>>

\* The final commit raises.
ViewsCommitError(w) ==
    LET s == pg_sessions[w] IN
    /\ w \in PgWriters
    /\ s.pc = "commit"
    /\ pg_sessions' = [pg_sessions EXCEPT ![w].pc = "except"]
    /\ UNCHANGED <<pg_tables, pg_constraint, pg_columns, pg_maxlen>>
    /\ UNCHANGED oraVars
    /\ UNCHANGED appVars
    /\ UNCHANGED <<shellVars, localVars>>

\* write_dataframes_to_views, lines 536-543: self.connection.rollback();
\* return False, f"Erro: ..."
ViewsExcept(w) ==
    LET s == pg_sessions[w] IN
    /\ w \in PgWriters
    /\ s.pc = "except"
    /\ pg_sessions' = [pg_sessions EXCEPT
           ![w].pc = "returned", ![w].result = FALSE, ![w].pend = NoPgRows,
           ![w].df = <<>>]
    /\ UNCHANGED <<pg_tables, pg_constraint, pg_columns, pg_maxlen>>
    /\ UNCHANGED oraVars
    /\ UNCHANGED appVars
    /\ UNCHANGED <<shellVars, localVars>>

(***************************************************************************)
(* Application shell (main.py): OrionTaxSyncApp.                           *)
(*                                                                         *)
(* __init__ connects the store, starts the scheduler, shows the tray icon  *)
(* and opens the initial LoginDialog; main() then calls app.exec_().       *)
(* LoginDialog.exec_() blocks its caller in a local event loop until the   *)
(* dialog is accepted (authenticate_user succeeded) or rejected; the       *)
(* background threads go on meanwhile.  The dialog is application-modal:   *)
(* while it is open the main window takes no input.  Tray requests are     *)
(* modelled one at a time (none while a LoginDialog is open).              *)
(***************************************************************************)
LoginResults == {"Accepted", "Rejected", "Raised"}

\* No LoginDialog is open.
NoDialog == [request |-> "none", result |-> "none"]

\* The LoginDialog of a request ("initial" for show_login, "tray" for
\* show_main_window), open until exec_() has a result.
OpenDialog(request) == [request |-> request, result |-> "open"]

\* The process is alive.
Alive == app_pc # "exited"

\* The main thread dispatches events: app.exec_() or a dialog's exec_() runs.
Dispatching == app_pc = "exec" \/ login_dialog.result = "open"

\* The main window takes input.
WindowInput == app_pc = "exec" /\ login_dialog = NoDialog /\ main_window = "visible"

\* The tray icon takes input.
TrayInput == app_pc = "exec" /\ login_dialog = NoDialog /\ tray_icon

\* create_main_window: MainWindow(...) and show(); an exception is logged and
\* leaves self.main_window as it was.
create_main_window ==
    \/ main_window' = "visible" /\ tray_message' = "Sistema aberto"
    \/ UNCHANGED <<main_window, tray_message>>

\* minimize_to_tray: hide() and the balloon, when the window exists.
minimize_to_tray ==
    IF main_window = "none" THEN UNCHANGED <<main_window, tray_message>>
    ELSE main_window' = "hidden" /\ tray_message' = "Sistema minimizado"

\* quit_application: scheduler.stop(), db_manager.disconnect(),
\* tray_icon.hide(), main_window.close() (closeEvent ignores the event and
\* calls minimize_to_tray), app.quit().  app.quit() ends the event loop that is
\* running; called before app.exec_() it has no effect and the caller goes on
\* to next_pc.
quit_application(next_pc) ==
    /\ scheduler_running' = FALSE
    /\ db_conn' = FALSE
    /\ tray_icon' = FALSE
    /\ minimize_to_tray
    /\ app_pc' = IF app_pc = "exec" THEN "exited" ELSE next_pc

\* LoginDialog.exec_() ends: LoginDialog.login has authenticated the user and
\* called accept(), the dialog has been cancelled or closed, or an exception
\* has come out of the dialog.
LoginDialogEnds(result) ==
    /\ Alive
    /\ login_dialog.result = "open"
    /\ login_dialog' = [login_dialog EXCEPT !.result = result]
    /\ UNCHANGED <<app_pc, initial_login, main_window, tray_icon, tray_message,
                   scheduler_running, db_conn>>
    /\ UNCHANGED appVars
    /\ UNCHANGED dbVars
    /\ UNCHANGED localVars

\* show_login, lines 157-170, inside __init__: the initial LoginDialog has
\* ended.
ShowLogin ==
    /\ app_pc = "login"
    /\ login_dialog.request = "initial"
    /\ login_dialog.result \in LoginResults
    /\ login_dialog' = NoDialog
    /\ initial_login' = login_dialog.result
    /\ IF login_dialog.result = "Accepted"
       THEN /\ create_main_window
            /\ app_pc' = "run"
            /\ UNCHANGED <<tray_icon, scheduler_running, db_conn>>
       ELSE quit_application("run")
    /\ UNCHANGED appVars
    /\ UNCHANGED dbVars
    /\ UNCHANGED localVars

\* main(): sys.exit(app.run()), after __init__ has returned.
AppRun ==
    /\ app_pc = "run"
    /\ app_pc' = "exec"
    /\ UNCHANGED <<login_dialog, initial_login, main_window, tray_icon,
                   tray_message, scheduler_running, db_conn>>
    /\ UNCHANGED appVars
    /\ UNCHANGED dbVars
    /\ UNCHANGED localVars

\* show_main_window, lines 196-202: the tray menu entry or a double click on
\* the tray icon opens a LoginDialog.
TrayOpen ==
    /\ TrayInput
    /\ login_dialog' = OpenDialog("tray")
    /\ UNCHANGED <<app_pc, initial_login, main_window, tray_icon, tray_message,
                   scheduler_running, db_conn>>
    /\ UNCHANGED appVars
    /\ UNCHANGED dbVars
    /\ UNCHANGED localVars

\* A window shown again whatever the LoginDialog answered.
ShowMainWindowTrusting ==
    /\ Alive
    /\ login_dialog.request = "tray"
    /\ login_dialog.result \in LoginResults
    /\ login_dialog' = NoDialog
    /\ IF main_window # "none"
       THEN main_window' = "visible" /\ UNCHANGED tray_message
       ELSE create_main_window
    /\ UNCHANGED <<app_pc, initial_login, tray_icon, scheduler_running, db_conn>>
    /\ UNCHANGED appVars
    /\ UNCHANGED dbVars
    /\ UNCHANGED localVars

\* show_main_window, lines 202-220: the LoginDialog of the request has ended.
ShowMainWindow ==
    /\ Alive
    /\ login_dialog.request = "tray"
    /\ login_dialog.result \in LoginResults
    /\ login_dialog' = NoDialog
    /\ IF login_dialog.result # "Accepted"
       THEN UNCHANGED <<main_window, tray_message>>
       ELSE IF main_window # "none"
       THEN main_window' = "visible" /\ UNCHANGED tray_message
       ELSE create_main_window
    /\ UNCHANGED <<app_pc, initial_login, tray_icon, scheduler_running, db_conn>>
    /\ UNCHANGED appVars
    /\ UNCHANGED dbVars
    /\ UNCHANGED localVars

\* A close that shuts the scheduler down and closes the store.
MinimizeToTrayStopping ==
    /\ WindowInput
    /\ minimize_to_tray
    /\ scheduler_running' = FALSE
    /\ db_conn' = FALSE
    /\ UNCHANGED <<app_pc, login_dialog, initial_login, tray_icon>>
    /\ UNCHANGED appVars
    /\ UNCHANGED dbVars
    /\ UNCHANGED localVars

\* MainWindow.closeEvent (the close button, or the Sair entry of the menu
\* bar, which is connected to self.close): event.ignore() and
\* app_instance.minimize_to_tray().
MinimizeToTray ==
    /\ WindowInput
    /\ minimize_to_tray
    /\ UNCHANGED <<app_pc, login_dialog, initial_login, tray_icon,
                   scheduler_running, db_conn>>
    /\ UNCHANGED appVars
    /\ UNCHANGED dbVars
    /\ UNCHANGED localVars

\* The Sair entry of the tray menu: quit_application.
TrayQuit ==
    /\ TrayInput
    /\ quit_application("exited")
    /\ UNCHANGED <<login_dialog, initial_login>>
    /\ UNCHANGED appVars
    /\ UNCHANGED dbVars
    /\ UNCHANGED localVars

(***************************************************************************)
(* Schedule registry (gui/schedule.py, gui/main_window.py,                 *)
(* config/database.py) and the scheduler jobs (core/scheduler.py).         *)
(*                                                                         *)
(* A row of agendamentos is keyed by its id (AUTOINCREMENT: an id is never *)
(* used twice).  dias_semana is the JSON text json.dumps([schedule_day]),  *)
(* modelled as the one-element sequence, or NULL, modelled as <<>>.  hora  *)
(* always comes from QTimeEdit as "HH:mm" and is left out.  A job is       *)
(* identified by the id of its schedule (job id schedule_{id}).            *)
(***************************************************************************)
NoDay == -1    \* schedule_day is None

\* frequencia_map of create_schedule and update_schedule
frequencia_map(schedule_type) ==
    CASE schedule_type = "daily" -> "DIARIA"
      [] schedule_type = "weekly" -> "SEMANAL"
      [] schedule_type = "monthly" -> "MENSAL"
      [] OTHER -> "DIARIA"

\* schedule_type_map of get_schedule and get_all_schedules
schedule_type_map(frequencia) ==
    CASE frequencia = "DIARIA" -> "daily"
      [] frequencia = "SEMANAL" -> "weekly"
      [] frequencia = "MENSAL" -> "monthly"
      [] OTHER -> "daily"

\* json.dumps([schedule_day]) if schedule_day is not None else None
json_dumps(schedule_day) == IF schedule_day = NoDay THEN <<>> ELSE <<schedule_day>>

\* get_schedule and get_all_schedules: the dict built from a row.
schedule_dict(id, row) ==
    [id |-> id,
     operation_type |-> row.tipo_operacao,
     schedule_type |-> schedule_type_map(row.frequencia),
     schedule_day |-> IF Len(row.dias_semana) > 0 THEN row.dias_semana[1] ELSE NoDay,
     is_active |-> row.is_active]

get_schedule(id) == schedule_dict(id, agendamentos[id])

\* _create_trigger returns a trigger (TRUE) or None (FALSE): CronTrigger
\* accepts day_of_week in 0..6 and day in 1..31, and raises ValueError for
\* any other number; a field that is None is left out of the trigger.
create_trigger(schedule) ==
    CASE schedule.schedule_type = "daily" -> TRUE
      [] schedule.schedule_type = "weekly" ->
            schedule.schedule_day = NoDay \/ schedule.schedule_day \in 0..6
      [] schedule.schedule_type = "monthly" ->
            schedule.schedule_day = NoDay \/ schedule.schedule_day \in 1..31
      [] OTHER -> FALSE

\* Scheduler.remove_job(schedule_id): the jobs left.
remove_job(J, id) == J \ {id}

\* Scheduler.add_job(schedule): the jobs afterwards.
add_job(J, schedule) ==
    IF ~schedule.is_active THEN J
    ELSE IF ~create_trigger(schedule) THEN remove_job(J, schedule.id)
    ELSE remove_job(J, schedule.id) \cup {schedule.id}

\* Scheduler.update_job(schedule)
update_job(J, schedule) == add_job(remove_job(J, schedule.id), schedule)

\* Scheduler.load_schedules: add_job for every row, in the order of the ids.
RECURSIVE load_schedules(_, _)
load_schedules(J, ids) ==
    IF ids = {} THEN J
    ELSE LET id == CHOOSE x \in ids : \A y \in ids : x <= y
         IN load_schedules(add_job(J, get_schedule(id)), ids \ {id})

\* What ScheduleDialog.save_schedule can pass on: the radio button chosen and
\* the value of day_spin (minimum 0; maximum 6 for weekly, 31 for monthly).
DialogChoices ==
    {[schedule_type |-> "daily", schedule_day |-> NoDay]}
    \cup {[schedule_type |-> "weekly", schedule_day |-> d] : d \in {0, 6}}
    \cup {[schedule_type |-> "monthly", schedule_day |-> d] : d \in {0, 1, 31}}

\* The row create_schedule inserts and update_schedule leaves.
ScheduleRow(op, choice, is_active, ultima_execucao) ==
    [tipo_operacao |-> op,
     frequencia |-> frequencia_map(choice.schedule_type),
     dias_semana |-> json_dumps(choice.schedule_day),
     is_active |-> is_active,
     ultima_execucao |-> ultima_execucao]

\* MainWindow.add_schedule with the dialog accepted: create_schedule, then
\* get_schedule and scheduler.add_job.
AddSchedule(op, choice, is_active) ==
    LET id == sqlite_sequence + 1 IN
    /\ WindowInput
    /\ id \in ScheduleIds
    /\ agendamentos' = [x \in DOMAIN agendamentos \cup {id} |->
           IF x = id THEN ScheduleRow(op, choice, is_active, 0) ELSE agendamentos[x]]
    /\ sqlite_sequence' = id
    /\ jobs' = add_job(jobs, schedule_dict(id, ScheduleRow(op, choice, is_active, 0)))
    /\ UNCHANGED <<config_oracle, config_oriontax, clientes, logs_execucao>>
    /\ UNCHANGED <<threads, fire_log, clock>>
    /\ UNCHANGED uiVars
    /\ UNCHANGED dbVars
    /\ UNCHANGED shellVars
    /\ UNCHANGED <<accessVars, configVars, clienteVars, test_clients, extraVars>>

\* MainWindow.edit_schedule of the selected row with the dialog accepted:
\* update_schedule, then get_schedule and scheduler.update_job.
EditSchedule(id, op, choice, is_active) ==
    /\ WindowInput
    /\ id \in DOMAIN agendamentos
    /\ agendamentos' = [agendamentos EXCEPT
           ![id] = ScheduleRow(op, choice, is_active, @.ultima_execucao)]
    /\ jobs' = update_job(jobs, schedule_dict(id, ScheduleRow(op, choice, is_active, 0)))
    /\ UNCHANGED <<config_oracle, config_oriontax, clientes, logs_execucao>>
    /\ UNCHANGED <<threads, fire_log, clock>>
    /\ UNCHANGED uiVars
    /\ UNCHANGED dbVars
    /\ UNCHANGED shellVars
    /\ UNCHANGED localVars

\* MainWindow.delete_schedule of the selected row: on Yes scheduler.remove_job
\* and delete_schedule.
DeleteSchedule(id, reply) ==
    /\ WindowInput
    /\ id \in DOMAIN agendamentos
    /\ IF reply = "Yes"
       THEN /\ jobs' = remove_job(jobs, id)
            /\ agendamentos' = [x \in DOMAIN agendamentos \ {id} |-> agendamentos[x]]
       ELSE UNCHANGED <<jobs, agendamentos>>
    /\ UNCHANGED <<config_oracle, config_oriontax, clientes, logs_execucao>>
    /\ UNCHANGED <<threads, fire_log, clock>>
    /\ UNCHANGED uiVars
    /\ UNCHANGED dbVars
    /\ UNCHANGED shellVars
    /\ UNCHANGED localVars

(***************************************************************************)
(* Local store: which thread uses which connection (config/database.py,    *)
(* called from core/scheduler.py, gui/main_window.py and main.py).         *)
(*                                                                         *)
(* The threads: "ui" is the main thread, "tick" the scheduler thread that  *)
(* runs _execute_sync, "client" a per-client thread running                *)
(* _execute_sync_for_client, "worker" the WorkerThread.  A call is         *)
(*   fn     the function of DatabaseManager                                *)
(*   pc     "connected" (its private connection is open), "executed" (its  *)
(*          statements and commit went through), "failed" (one raised),    *)
(*          "returned", "raised" (how the call ended), "none" (no call yet)*)
(*   conn   the private connection of the call is open                     *)
(* A private connection that its call leaves open stays with the thread    *)
(* until the garbage collector finds it.                                   *)
(***************************************************************************)
StoreThreads == {"ui", "tick", "client", "worker"}

\* The local-store calls each thread makes, in the order of its code:
\* _execute_sync lines 216, 217, 228, 250; _execute_sync_for_client lines
\* 310-384; the handlers of the main window and of main.py; WorkerThread.run
\* makes none.
CallSites(t) ==
    CASE t = "tick" -> <<"get_oracle_config_threadsafe", "get_oriontax_config_threadsafe",
                         "get_all_clientes_threadsafe", "update_schedule_last_run">>
      [] t = "client" -> <<"add_log_threadsafe">>
      [] t = "ui" -> <<"get_all_schedules", "authenticate_user", "get_oracle_config",
                       "get_oriontax_config", "get_logs_recentes">>
      [] OTHER -> <<>>

\* The functions that open a connection of their own.
PrivateConnection ==
    {"get_oracle_config_threadsafe", "get_oriontax_config_threadsafe",
     "get_all_clientes_threadsafe", "add_log_threadsafe", "update_schedule_last_run"}

\* The functions that close their connection in a finally block;
\* update_schedule_last_run closes it at the end of its try block only.
ClosesInFinally ==
    {"get_oracle_config_threadsafe", "get_oriontax_config_threadsafe",
     "get_all_clientes_threadsafe", "add_log_threadsafe"}

\* The functions that catch what their statements raise.
CatchesErrors == {"update_schedule_last_run"}

NoCall == [fn |-> "none", pc |-> "none", conn |-> FALSE]

InCall(c) == c.pc \in {"connected", "executed", "failed"}

\* The position of a function in the call sites of a thread.
SiteOf(t, fn) == CHOOSE i \in DOMAIN CallSites(t) : CallSites(t)[i] = fn

\* The functions thread t can call next: a tick goes through its calls in
\* order and starts again after the last one or after a call that raised
\* (_execute_sync ends in its except); the other threads call in any order.
NextCalls(t) ==
    LET c == store_calls[t]
        sites == CallSites(t)
    IN
    IF t # "tick" THEN {sites[i] : i \in DOMAIN sites}
    ELSE IF c.pc = "returned" /\ SiteOf(t, c.fn) < Len(sites)
         THEN {sites[SiteOf(t, c.fn) + 1]}
         ELSE {sites[1]}

\* A function that works on db_manager.conn is called on thread t.
StoreHandleCall(t, fn) ==
    /\ db_conn
    /\ ~InCall(store_calls[t])
    /\ fn \in NextCalls(t)
    /\ fn \notin PrivateConnection
    /\ handle_users' = handle_users \cup {t}
    /\ store_calls' = [store_calls EXCEPT ![t] = [fn |-> fn, pc |-> "returned", conn |-> FALSE]]
    /\ UNCHANGED private_conns
    /\ UNCHANGED <<sqlite_sequence, configVars, clienteVars, test_clients, extraVars>>
    /\ UNCHANGED appVars
    /\ UNCHANGED dbVars
    /\ UNCHANGED shellVars

\* A function that opens its own connection is called on thread t:
\* sqlite3.connect(self.db_path) returns a connection or raises.
StoreCallBegin(t, fn, connected) ==
    /\ ~InCall(store_calls[t])
    /\ fn \in NextCalls(t)
    /\ fn \in PrivateConnection
    /\ store_calls' = [store_calls EXCEPT ![t] =
           IF connected THEN [fn |-> fn, pc |-> "connected", conn |-> TRUE]
           ELSE [fn |-> fn, conn |-> FALSE,
                 pc |-> IF fn \in CatchesErrors THEN "returned" ELSE "raised"]]
    /\ UNCHANGED <<handle_users, private_conns>>
    /\ UNCHANGED <<sqlite_sequence, configVars, clienteVars, test_clients, extraVars>>
    /\ UNCHANGED appVars
    /\ UNCHANGED dbVars
    /\ UNCHANGED shellVars

\* The statements of the call (execute, fetch, commit) go through or one raises.
StoreCallExecute(t, ok) ==
    /\ store_calls[t].pc = "connected"
    /\ store_calls' = [store_calls EXCEPT ![t].pc = IF ok THEN "executed" ELSE "failed"]
    /\ UNCHANGED <<handle_users, private_conns>>
    /\ UNCHANGED <<sqlite_sequence, configVars, clienteVars, test_clients, extraVars>>
    /\ UNCHANGED appVars
    /\ UNCHANGED dbVars
    /\ UNCHANGED shellVars

\* The call ends: cursor.close() and conn.close() where the code reaches
\* them, then the return or the exception.
StoreCallEnd(t) ==
    LET c == store_calls[t]
        closes == c.pc = "executed" \/ c.fn \in ClosesInFinally
    IN
    /\ c.pc \in {"executed", "failed"}
    /\ store_calls' = [store_calls EXCEPT
           ![t].conn = ~closes,
           ![t].pc = IF c.pc = "failed" /\ c.fn \notin CatchesErrors
                     THEN "raised" ELSE "returned"]
    /\ private_conns' = IF closes THEN private_conns ELSE private_conns \cup {t}
    /\ UNCHANGED handle_users
    /\ UNCHANGED <<sqlite_sequence, configVars, clienteVars, test_clients, extraVars>>
    /\ UNCHANGED appVars
    /\ UNCHANGED dbVars
    /\ UNCHANGED shellVars

\* The garbage collector closes the connections thread t left open.
StoreCollect(t) ==
    /\ t \in private_conns
    /\ private_conns' = private_conns \ {t}
    /\ store_calls' = [store_calls EXCEPT ![t].conn = FALSE]
    /\ UNCHANGED handle_users
    /\ UNCHANGED <<sqlite_sequence, configVars, clienteVars, test_clients, extraVars>>
    /\ UNCHANGED appVars
    /\ UNCHANGED dbVars
    /\ UNCHANGED shellVars

(***************************************************************************)
(* OracleClient.test_connection (core/oracle_client.py).                   *)
(*                                                                         *)
(* Every test builds its own OracleClient and runs on the main thread, so  *)
(* the tests follow one another.  A client is                              *)
(*   pc                      the next step of test_connection              *)
(*   connection              self.connection is an open connection         *)
(*   thick_mode_initialized  the flag of the client                        *)
(*   result                  the success flag returned, "none" before      *)
(***************************************************************************)
NewOracleClient ==
    [pc |-> "connect_thin", connection |-> FALSE, thick_mode_initialized |-> FALSE,
     result |-> "none"]

\* The steps of test_connection: connect() (thin, and thick after DPY-3010),
\* the two queries, cursor.close() and disconnect(), the return; every
\* exception is caught by the except of line 218.
TestStep(c) ==
    CASE c.pc = "connect_thin" ->
            {[c EXCEPT !.pc = "select", !.connection = TRUE],
             [c EXCEPT !.pc = "init_thick"],
             [c EXCEPT !.pc = "except"]}
      [] c.pc = "init_thick" ->
            {[c EXCEPT !.pc = "connect_thick", !.thick_mode_initialized = TRUE],
             [c EXCEPT !.pc = "except"]}
      [] c.pc = "connect_thick" ->
            {[c EXCEPT !.pc = "select", !.connection = TRUE],
             [c EXCEPT !.pc = "except"]}
      [] c.pc = "select" ->
            {[c EXCEPT !.pc = "version"], [c EXCEPT !.pc = "except"]}
      [] c.pc = "version" ->
            {[c EXCEPT !.pc = "disconnect"], [c EXCEPT !.pc = "except"]}
      [] c.pc = "disconnect" ->
            {[c EXCEPT !.pc = "returned", !.connection = FALSE, !.result = "true"]}
      [] c.pc = "except" ->
            {[c EXCEPT !.pc = "returned", !.result = "false"]}
      [] OTHER -> {}

\* test_oracle_connection: oracle_client = OracleClient(oracle_config) and
\* the call of test_connection.
TestConnectionBegin ==
    /\ Len(test_clients) < MaxTests
    /\ \A i \in DOMAIN test_clients : test_clients[i].pc = "returned"
    /\ test_clients' = Append(test_clients, NewOracleClient)
    /\ UNCHANGED <<sqlite_sequence, accessVars, configVars, clienteVars, extraVars>>
    /\ UNCHANGED appVars
    /\ UNCHANGED dbVars
    /\ UNCHANGED shellVars

\* One step of test_connection on the client under test.
TestConnectionStep ==
    /\ test_clients # <<>>
    /\ \E c \in TestStep(test_clients[Len(test_clients)]) :
          test_clients' = [test_clients EXCEPT ![Len(test_clients)] = c]
    /\ UNCHANGED <<sqlite_sequence, accessVars, configVars, clienteVars, extraVars>>
    /\ UNCHANGED appVars
    /\ UNCHANGED dbVars
    /\ UNCHANGED shellVars

(***************************************************************************)
(* Local store: the rows of config_oriontax (config/database.py).          *)
(*                                                                         *)
(* All the calls go through db_manager.conn, whose transactions are opened *)
(* implicitly by the first UPDATE or INSERT and end at the next commit();  *)
(* no function rolls back.  A row is [id, is_active]; created_at grows     *)
(* with the id.                                                            *)
(***************************************************************************)
SaveOutcomes == {"ok", "encrypt_error", "update_error", "insert_error", "commit_error"}

\* UPDATE config_oriontax SET is_active = 0
DeactivateAll(table) == [i \in DOMAIN table |-> [table[i] EXCEPT !.is_active = FALSE]]

\* INSERT INTO config_oriontax (...) VALUES (...): is_active defaults to 1
InsertConfig(table) == Append(table, [id |-> Len(table) + 1, is_active |-> TRUE])

\* get_oriontax_config: SELECT * FROM config_oriontax WHERE is_active = 1
\* ORDER BY created_at DESC LIMIT 1; the id of the row, 0 for None.
get_oriontax_config ==
    LET active == {i \in DOMAIN config_oriontax_table : config_oriontax_table[i].is_active}
    IN IF active = {} THEN 0
       ELSE config_oriontax_table[CHOOSE i \in active : \A j \in active : j <= i].id

\* save_oriontax_config: encrypt, UPDATE, INSERT, commit; the first of them
\* that raises sends the call to its except, which returns False.
save_oriontax_config(outcome) ==
    LET updated == DeactivateAll(config_oriontax_table)
        inserted == InsertConfig(updated)
    IN
    /\ Len(save_results) < MaxSaves
    /\ config_oriontax_table' =
          CASE outcome \in {"encrypt_error", "update_error"} -> config_oriontax_table
            [] outcome = "insert_error" -> updated
            [] OTHER -> inserted
    /\ config_oriontax_durable' =
          IF outcome = "ok" THEN inserted ELSE config_oriontax_durable
    /\ save_results' = Append(save_results,
          [ok |-> outcome = "ok",
           row |-> IF outcome \in {"ok", "commit_error"} THEN Len(inserted) ELSE 0])
    /\ UNCHANGED <<sqlite_sequence, accessVars, clienteVars, test_clients, extraVars>>
    /\ UNCHANGED appVars
    /\ UNCHANGED dbVars
    /\ UNCHANGED shellVars

\* Another function commits on db_manager.conn (add_log, create_cliente,
\* authenticate_user, ...): what the open transaction holds becomes durable.
StoreCommit ==
    /\ config_oriontax_durable # config_oriontax_table
    /\ config_oriontax_durable' = config_oriontax_table
    /\ UNCHANGED <<config_oriontax_table, save_results>>
    /\ UNCHANGED <<sqlite_sequence, accessVars, clienteVars, test_clients, extraVars>>
    /\ UNCHANGED appVars
    /\ UNCHANGED dbVars
    /\ UNCHANGED shellVars

(***************************************************************************)
(* Local store: the rows of clientes (config/database.py).                 *)
(*                                                                         *)
(* A row is [id, cnpj, is_active]; cnpj is UNIQUE NOT NULL.  A text is a   *)
(* sequence of characters.  The names of the clients play no part and are  *)
(* left out.                                                               *)
(***************************************************************************)
DigitChars == {"0", "1", "2", "3", "4", "5", "6", "7", "8", "9"}

\* Characters that are not decimal digits and for which str.isdigit() is
\* True: "sup2" stands for U+00B2 (superscript two).
OtherDigitChars == {"sup2"}

\* str.isdigit, for one character
isdigit(ch) == ch \in DigitChars \cup OtherDigitChars

Repeat(ch, n) == [i \in 1..n |-> ch]

\* 12.345.678/0001-90, written with one digit
Formatted(ch) ==
    <<ch, ch, ".", ch, ch, ch, ".", ch, ch, ch, "/", ch, ch, ch, ch, "-", ch, ch>>

\* What a caller can hand over as cnpj.
CnpjInputs ==
    {Repeat("1", 14), Repeat("2", 14), Formatted("1"),
     Append(Repeat("1", 13), "sup2"),
     Repeat("1", 13), Repeat("2", 15), <<"a", "b", "c">>, <<>>}

\* ''.join(filter(str.isdigit, cnpj))
cnpj_limpo(cnpj) == SelectSeq(cnpj, isdigit)

\* len(cnpj_limpo) != 14 sends the call back with False
HasCnpjLength(cnpj) == Len(cnpj) = 14

\* The UNIQUE constraint on cnpj: no row other than row id holds the value.
CnpjFree(table, id, cnpj) ==
    \A i \in DOMAIN table : table[i].id # id => table[i].cnpj # cnpj

NoResult == [fn |-> "none", id |-> 0, cnpj |-> <<>>, ok |-> FALSE]

\* create_cliente(nome, cnpj)
CreateCliente(cnpj) ==
    LET limpo == cnpj_limpo(cnpj)
        id == Len(clientes_table) + 1
        ok == HasCnpjLength(limpo) /\ CnpjFree(clientes_table, id, limpo)
    IN
    /\ clientes_table' =
          IF ok THEN Append(clientes_table, [id |-> id, cnpj |-> limpo, is_active |-> TRUE])
          ELSE clientes_table
    /\ cliente_result' = [fn |-> "create_cliente", id |-> 0, cnpj |-> cnpj, ok |-> ok]
    /\ UNCHANGED <<sqlite_sequence, accessVars, configVars, test_clients, extraVars>>
    /\ UNCHANGED appVars
    /\ UNCHANGED dbVars
    /\ UNCHANGED shellVars

\* update_cliente(cliente_id, nome, cnpj): an UPDATE that matches no row
\* changes nothing and the call still returns True.
UpdateCliente(cliente_id, cnpj) ==
    LET limpo == cnpj_limpo(cnpj)
        ok == HasCnpjLength(limpo) /\ CnpjFree(clientes_table, cliente_id, limpo)
    IN
    /\ clientes_table' =
          IF ok THEN [i \in DOMAIN clientes_table |->
                        IF clientes_table[i].id = cliente_id
                        THEN [clientes_table[i] EXCEPT !.cnpj = limpo]
                        ELSE clientes_table[i]]
          ELSE clientes_table
    /\ cliente_result' = [fn |-> "update_cliente", id |-> cliente_id, cnpj |-> cnpj, ok |-> ok]
    /\ UNCHANGED <<sqlite_sequence, accessVars, configVars, test_clients, extraVars>>
    /\ UNCHANGED appVars
    /\ UNCHANGED dbVars
    /\ UNCHANGED shellVars

\* delete_cliente(cliente_id): UPDATE clientes SET is_active = 0 WHERE id = ?
DeleteCliente(cliente_id) ==
    /\ clientes_table' = [i \in DOMAIN clientes_table |->
          IF clientes_table[i].id = cliente_id
          THEN [clientes_table[i] EXCEPT !.is_active = FALSE]
          ELSE clientes_table[i]]
    /\ cliente_result' = [fn |-> "delete_cliente", id |-> cliente_id, cnpj |-> <<>>, ok |-> TRUE]
    /\ UNCHANGED <<sqlite_sequence, accessVars, configVars, test_clients, extraVars>>
    /\ UNCHANGED appVars
    /\ UNCHANGED dbVars
    /\ UNCHANGED shellVars

(***************************************************************************)
(* The specification of the transfer paths.                                *)
(***************************************************************************)
\* The shell once the initial login has been accepted: window shown, event
\* loop running.
ShellStarted ==
    /\ app_pc = "exec"
    /\ login_dialog = NoDialog
    /\ initial_login = "Accepted"
    /\ main_window = "visible"
    /\ tray_icon = TRUE
    /\ tray_message = "Sistema aberto"
    /\ scheduler_running = TRUE
    /\ db_conn = TRUE

\* ---------------------------------------------------------------------
\* Accounts: table usuarios, PasswordHasher and change_password.
\* ---------------------------------------------------------------------

\* A password is its first 72 bytes and whatever follows them: bcrypt
\* hashes the first 72 bytes only.
Passwords ==
    { [head |-> "admin123", tail |-> ""],
      [head |-> "secret1", tail |-> ""],
      [head |-> "x72", tail |-> ""],
      [head |-> "x72", tail |-> "a"] }

NoPassword == [head |-> "", tail |-> ""]

\* What bcrypt derives the hash from.
bcrypt_key(password) == password.head

Salts == {"s1", "s2"}

\* PasswordHasher.hash_password: bcrypt.hashpw(password, bcrypt.gensalt()).
hash_password(password, salt) == [salt |-> salt, key |-> bcrypt_key(password)]

\* PasswordHasher.verify_password: bcrypt.checkpw(password, hashed).
verify_password(password, hashed) == bcrypt_key(password) = hashed.key

\* The names a caller may pass: the default account, a second account and
\* a name no row carries.
Usernames == {"admin", "maria", "ghost"}

\* SELECT ... FROM usuarios WHERE username = ? AND is_active = 1
active_user(table, username) ==
    /\ username \in DOMAIN table
    /\ table[username].is_active

\* authenticate_user(username, password) on a state of the table: a row
\* comes back when the active row's hash verifies. (It also stamps
\* last_login, a column nothing here reads.)
authenticate_in(table, username, password) ==
    /\ active_user(table, username)
    /\ verify_password(password, table[username].password_hash)

authenticate_user(username, password) ==
    authenticate_in(usuarios, username, password)

NoPasswordResult ==
    [username |-> "", old |-> NoPassword, new |-> NoPassword,
     ok |-> FALSE, message |-> "none"]

\* change_password without the check of the old password.
ChangePasswordUnverified(username, old_password, new_password, salt, commit_ok) ==
    /\ IF ~active_user(usuarios, username)
       THEN /\ password_result' =
                   [username |-> username, old |-> old_password,
                    new |-> new_password, ok |-> FALSE,
                    message |-> "Usuario nao encontrado"]
            /\ UNCHANGED usuarios
       ELSE /\ usuarios' =
                   [usuarios EXCEPT ![username].password_hash =
                        hash_password(new_password, salt)]
            /\ password_result' =
                   [username |-> username, old |-> old_password,
                    new |-> new_password, ok |-> commit_ok,
                    message |-> IF commit_ok THEN "Senha alterada com sucesso!"
                                ELSE "Erro ao alterar senha"]
    /\ UNCHANGED <<appVars, dbVars, shellVars, detailVars, schedule_dialog,
                   oracle_client, cell, oracleConfigVars, recent_logs>>

\* change_password(username, old_password, new_password): the two early
\* returns come before any write; the UPDATE and its commit sit in a try
\* whose except returns (False, "Erro ao alterar senha: ...") and rolls
\* nothing back.
ChangePassword(username, old_password, new_password, salt, commit_ok) ==
    /\ IF ~active_user(usuarios, username)
       THEN /\ password_result' =
                   [username |-> username, old |-> old_password,
                    new |-> new_password, ok |-> FALSE,
                    message |-> "Usuario nao encontrado"]
            /\ UNCHANGED usuarios
       ELSE IF ~verify_password(old_password, usuarios[username].password_hash)
       THEN /\ password_result' =
                   [username |-> username, old |-> old_password,
                    new |-> new_password, ok |-> FALSE,
                    message |-> "Senha atual incorreta"]
            /\ UNCHANGED usuarios
       ELSE /\ usuarios' =
                   [usuarios EXCEPT ![username].password_hash =
                        hash_password(new_password, salt)]
            /\ password_result' =
                   [username |-> username, old |-> old_password,
                    new |-> new_password, ok |-> commit_ok,
                    message |-> IF commit_ok THEN "Senha alterada com sucesso!"
                                ELSE "Erro ao alterar senha"]
    /\ UNCHANGED <<appVars, dbVars, shellVars, detailVars, schedule_dialog,
                   oracle_client, cell, oracleConfigVars, recent_logs>>

\* Table usuarios as _create_default_user leaves it: admin / admin123.
DefaultUsers ==
    [u \in {"admin"} |->
        [password_hash |-> hash_password([head |-> "admin123", tail |-> ""], "s1"),
         is_active |-> TRUE]]

\* ---------------------------------------------------------------------
\* The execution log as the logs tab reads it.
\* ---------------------------------------------------------------------
MaxLogRows == 3
MaxSeconds == 2

NoLogs == [limit |-> 0, ids |-> <<>>]

\* A row of logs_execucao with the two columns the database fills in:
\* id (AUTOINCREMENT) and created_at (DEFAULT CURRENT_TIMESTAMP, which
\* counts whole seconds).
StampedLogRow(tipo, status) ==
    [id |-> Len(logs_execucao) + 1, tipo_operacao |-> tipo, status |-> status,
     created_at |-> clock]

\* add_log / add_log_threadsafe called by any thread: one INSERT and its
\* commit, which SQLite applies one at a time.
AddLog(tipo, status) ==
    /\ Len(logs_execucao) < MaxLogRows
    /\ logs_execucao' = Append(logs_execucao, StampedLogRow(tipo, status))
    /\ UNCHANGED <<config_oracle, config_oriontax, clientes, agendamentos,
                   schedVars, uiVars, dbVars, shellVars, localVars>>

\* A second passes on the wall clock.
ClockTick ==
    /\ clock < MaxSeconds
    /\ clock' = clock + 1
    /\ UNCHANGED <<storeVars, jobs, threads, fire_log, uiVars, dbVars,
                   shellVars, localVars>>

\* The answers SELECT * FROM logs_execucao ORDER BY created_at DESC LIMIT ?
\* may give: rows in non-increasing created_at, none left out that is
\* newer than one returned; SQL leaves the order of rows with equal
\* created_at open.
OrderedByCreatedAt(limit) ==
    LET n == IF limit < Len(logs_execucao) THEN limit ELSE Len(logs_execucao)
        at(i) == logs_execucao[i].created_at
    IN { ids \in [1..n -> DOMAIN logs_execucao] :
           /\ \A i, j \in 1..n : i < j => (ids[i] # ids[j] /\ at(ids[i]) >= at(ids[j]))
           /\ \A k \in DOMAIN logs_execucao :
                 (\A i \in 1..n : ids[i] # k) => \A i \in 1..n : at(k) <= at(ids[i]) }

\* get_logs_recentes(limit)
GetLogsRecentes(limit) ==
    /\ \E ids \in OrderedByCreatedAt(limit) :
          recent_logs' = [limit |-> limit, ids |-> ids]
    /\ UNCHANGED <<appVars, dbVars, shellVars, detailVars, accountVars,
                   schedule_dialog, oracle_client, cell, oracleConfigVars>>

\* ---------------------------------------------------------------------
\* ScheduleDialog: the radio buttons, day_spin and save_schedule.
\* ---------------------------------------------------------------------

\* The dialog as init_ui builds it: daily checked, day_spin with minimum
\* 0, maximum 31 and value 1. schedule is the id of the row being edited,
\* 0 for a new one.
FreshDialog(schedule) ==
    [open |-> TRUE, schedule |-> schedule, radio |-> "daily",
     maximum |-> 31, value |-> 1]

NoScheduleDialog == [FreshDialog(0) EXCEPT !.open = FALSE]

\* QSpinBox.setValue: the value is brought into minimum..maximum.
setValue(dialog, v) ==
    [dialog EXCEPT !.value = IF v < 0 THEN 0
                             ELSE IF v > dialog.maximum THEN dialog.maximum ELSE v]

\* QSpinBox.setMaximum: a value above the new maximum is lowered to it.
setMaximum(dialog, m) ==
    [dialog EXCEPT !.maximum = m, !.value = IF @ > m THEN m ELSE @]

\* update_day_visibility, run on every toggled signal.
update_day_visibility(dialog) ==
    CASE dialog.radio = "daily" -> dialog
      [] dialog.radio = "weekly" -> setValue(setMaximum(dialog, 6), 0)
      [] OTHER -> setValue(setMaximum(dialog, 31), 1)

\* radio.setChecked(True), by click or by code: toggled is emitted only
\* when the checked button changes.
setChecked(dialog, radio) ==
    IF dialog.radio = radio THEN dialog
    ELSE update_day_visibility([dialog EXCEPT !.radio = radio])

\* load_schedule_data: the radio button of the row, then its day.
load_schedule_data(dialog, schedule) ==
    LET checked == setChecked(dialog, schedule.schedule_type) IN
    IF schedule.schedule_type \in {"weekly", "monthly"} /\ schedule.schedule_day # NoDay
    THEN setValue(checked, schedule.schedule_day)
    ELSE checked

dialogFrame ==
    <<config_oracle, config_oriontax, clientes, logs_execucao, threads, fire_log,
      clock, uiVars, dbVars, shellVars, accessVars, configVars, clienteVars,
      test_clients, accountVars, oracle_client, cell, oracleConfigVars,
      recent_logs>>

\* MainWindow.add_schedule: ScheduleDialog(self, db_manager)
OpenNewSchedule ==
    /\ WindowInput
    /\ ~schedule_dialog.open
    /\ sqlite_sequence + 1 \in ScheduleIds
    /\ schedule_dialog' = FreshDialog(0)
    /\ UNCHANGED <<agendamentos, jobs, sqlite_sequence, dialogFrame>>

\* MainWindow.edit_schedule: ScheduleDialog(self, db_manager, schedule)
OpenEditSchedule(id) ==
    /\ WindowInput
    /\ ~schedule_dialog.open
    /\ id \in DOMAIN agendamentos
    /\ schedule_dialog' = load_schedule_data(FreshDialog(id), get_schedule(id))
    /\ UNCHANGED <<agendamentos, jobs, sqlite_sequence, dialogFrame>>

\* The user checks another radio button.
ToggleRadio(radio) ==
    /\ schedule_dialog.open
    /\ radio # schedule_dialog.radio
    /\ schedule_dialog' = setChecked(schedule_dialog, radio)
    /\ UNCHANGED <<agendamentos, jobs, sqlite_sequence, dialogFrame>>

\* The user edits day_spin, which is shown for weekly and monthly and takes
\* what lies between its minimum and its maximum.
EditDay(v) ==
    /\ schedule_dialog.open
    /\ schedule_dialog.radio # "daily"
    /\ v \in 0..schedule_dialog.maximum
    /\ schedule_dialog' = setValue(schedule_dialog, v)
    /\ UNCHANGED <<agendamentos, jobs, sqlite_sequence, dialogFrame>>

\* Cancelar: reject().
CancelSchedule ==
    /\ schedule_dialog.open
    /\ schedule_dialog' = [schedule_dialog EXCEPT !.open = FALSE]
    /\ UNCHANGED <<agendamentos, jobs, sqlite_sequence, dialogFrame>>

\* Salvar: save_schedule reads the radio buttons and day_spin, calls
\* update_schedule or create_schedule and accepts; the main window then
\* passes the row to the scheduler.
SaveSchedule(op, is_active) ==
    LET choice == [schedule_type |-> schedule_dialog.radio,
                   schedule_day |-> IF schedule_dialog.radio = "daily" THEN NoDay
                                    ELSE schedule_dialog.value]
        id == IF schedule_dialog.schedule = 0 THEN sqlite_sequence + 1
              ELSE schedule_dialog.schedule
    IN
    /\ schedule_dialog.open
    /\ IF schedule_dialog.schedule = 0
       THEN /\ agendamentos' = [x \in DOMAIN agendamentos \cup {id} |->
                   IF x = id THEN ScheduleRow(op, choice, is_active, 0)
                   ELSE agendamentos[x]]
            /\ sqlite_sequence' = id
            /\ jobs' = add_job(jobs, schedule_dict(id, ScheduleRow(op, choice, is_active, 0)))
       ELSE /\ agendamentos' = [agendamentos EXCEPT
                   ![id] = ScheduleRow(op, choice, is_active, @.ultima_execucao)]
            /\ jobs' = update_job(jobs, schedule_dict(id, ScheduleRow(op, choice, is_active, 0)))
            /\ UNCHANGED sqlite_sequence
    /\ schedule_dialog' = [schedule_dialog EXCEPT !.open = FALSE]
    /\ UNCHANGED dialogFrame

\* ---------------------------------------------------------------------
\* OracleClient.connect and _init_thick_mode.
\* ---------------------------------------------------------------------
MaxConnects == 3

\* How an oracledb.connect can end: a connection; DPY-3010 carried in the
\* code field of the error or only in its text (both are DatabaseError);
\* another DatabaseError; an exception of another class.
ConnectOutcomes == {"ok", "code3010", "text3010", "database_error", "exception"}

\* DPY-3010 is an error of the thin driver only.
OutcomesIn(mode) ==
    IF mode = "thin" THEN ConnectOutcomes
    ELSE ConnectOutcomes \ {"code3010", "text3010"}

NoConnectCall ==
    [first_mode |-> "none", first |-> "none", init |-> "none",
     second |-> "none", result |-> "none"]

\* OracleClient.__init__ in a process that is in thin mode, or that another
\* client has already switched to thick mode.
\*   thick_mode_initialized   the guard of _init_thick_mode
\*   process_thick            oracledb.init_oracle_client has succeeded
\*   inits                    calls of oracledb.init_oracle_client made by
\*                            this client
\*   calls                    calls of connect() made so far
\*   call                     what the last call of connect() did
FreshOracleClient(process_thick) ==
    [thick_mode_initialized |-> FALSE, process_thick |-> process_thick,
     connection |-> FALSE, inits |-> 0, calls |-> 0, call |-> NoConnectCall]

NoOracleClient == FreshOracleClient(FALSE)

\* if error_code == 3010 or 'DPY-3010' in error_message
is_3010(outcome) == outcome \in {"code3010", "text3010"}

\* connect() with the fallback taken after any DatabaseError.
ConnectAnyFallback(first, init_ok, second) ==
    LET c == oracle_client
        mode == IF c.process_thick THEN "thick" ELSE "thin"
        fallback == first \in {"code3010", "text3010", "database_error"}
        runs_init == fallback /\ ~c.thick_mode_initialized
        init == IF ~fallback THEN "none"
                ELSE IF ~runs_init THEN "skipped"
                ELSE IF init_ok THEN "ok" ELSE "raised"
        tries_second == fallback /\ init # "raised"
    IN
    /\ c.calls < MaxConnects
    /\ first \in OutcomesIn(mode)
    /\ tries_second => second \in OutcomesIn("thick")
    /\ ~runs_init => init_ok
    /\ ~tries_second => second = "ok"
    /\ oracle_client' =
          [thick_mode_initialized |-> c.thick_mode_initialized \/ init = "ok",
           process_thick |-> c.process_thick \/ init = "ok",
           connection |-> IF first = "ok" \/ (tries_second /\ second = "ok")
                          THEN TRUE ELSE c.connection,
           inits |-> c.inits + (IF runs_init THEN 1 ELSE 0),
           calls |-> c.calls + 1,
           call |-> [first_mode |-> mode, first |-> first, init |-> init,
                     second |-> IF tries_second THEN second ELSE "none",
                     result |-> IF first = "ok" \/ (tries_second /\ second = "ok")
                                THEN "True" ELSE "raised"]]
    /\ UNCHANGED <<appVars, dbVars, shellVars, detailVars, accountVars,
                   schedule_dialog, cell, oracleConfigVars, recent_logs>>

\* connect(): oracledb.connect; on a DatabaseError that is DPY-3010,
\* _init_thick_mode (which does nothing when the guard is set, and sets it
\* only after init_oracle_client has returned) and a second
\* oracledb.connect; every other error is raised again.
Connect(first, init_ok, second) ==
    LET c == oracle_client
        mode == IF c.process_thick THEN "thick" ELSE "thin"
        fallback == is_3010(first)
        runs_init == fallback /\ ~c.thick_mode_initialized
        init == IF ~fallback THEN "none"
                ELSE IF ~runs_init THEN "skipped"
                ELSE IF init_ok THEN "ok" ELSE "raised"
        tries_second == fallback /\ init # "raised"
    IN
    /\ c.calls < MaxConnects
    /\ first \in OutcomesIn(mode)
    /\ tries_second => second \in OutcomesIn("thick")
    /\ ~runs_init => init_ok
    /\ ~tries_second => second = "ok"
    /\ oracle_client' =
          [thick_mode_initialized |-> c.thick_mode_initialized \/ init = "ok",
           process_thick |-> c.process_thick \/ init = "ok",
           connection |-> IF first = "ok" \/ (tries_second /\ second = "ok")
                          THEN TRUE ELSE c.connection,
           inits |-> c.inits + (IF runs_init THEN 1 ELSE 0),
           calls |-> c.calls + 1,
           call |-> [first_mode |-> mode, first |-> first, init |-> init,
                     second |-> IF tries_second THEN second ELSE "none",
                     result |-> IF first = "ok" \/ (tries_second /\ second = "ok")
                                THEN "True" ELSE "raised"]]
    /\ UNCHANGED <<appVars, dbVars, shellVars, detailVars, accountVars,
                   schedule_dialog, cell, oracleConfigVars, recent_logs>>

\* disconnect(): closes the connection when there is one.
Disconnect ==
    /\ oracle_client.connection
    /\ oracle_client' = [oracle_client EXCEPT !.connection = FALSE]
    /\ UNCHANGED <<appVars, dbVars, shellVars, detailVars, accountVars,
                   schedule_dialog, cell, oracleConfigVars, recent_logs>>

\* ---------------------------------------------------------------------
\* Enterprise write path, one cell: _normalize_dataframe_for_oracle and
\* clean_value of _insert_dataframe_oracle.
\*
\* A text is the sequence of its characters.  A value is None, a text, or
\* a float: a number mant / 10^scale, NaN or infinity.
\* ---------------------------------------------------------------------
NoneValue == [kind |-> "None", chars |-> <<>>, mant |-> 0, scale |-> 0]
Str(chars) == [kind |-> "str", chars |-> chars, mant |-> 0, scale |-> 0]
Float(mant, scale) == [kind |-> "float", chars |-> <<>>, mant |-> mant, scale |-> scale]
NaNValue == [kind |-> "nan", chars |-> <<>>, mant |-> 0, scale |-> 0]
InfValue == [kind |-> "inf", chars |-> <<>>, mant |-> 0, scale |-> 0]
ValueError == [kind |-> "ValueError", chars |-> <<>>, mant |-> 0, scale |-> 0]

\* The texts a cell is drawn from.
CellTexts ==
    { <<"1", "2", ",", "5">>,
      <<" ", "1", "2", ",", "5", " ">>,
      <<"1", "2", ".", "5">>,
      <<"7">>,
      <<"a", "b", "c">>,
      <<"1", ".", "2", "3", "4", ",", "5", "6">>,
      <<"n", "u", "l", "l">>,
      <<"N", "U", "L", "L">>,
      <<" ", "N", "o", "n", "e", " ">>,
      <<"n", "a", "n">>,
      <<"N", "a", "N">>,
      <<"N", "A", "N">>,
      <<" ", "n", "a", "n", " ">>,
      <<>>,
      <<" ">>,
      <<"a", ",", "b">> }

\* str.lower, for the letters of the texts above
lower_char(ch) ==
    CASE ch = "N" -> "n" [] ch = "A" -> "a" [] ch = "U" -> "u"
      [] ch = "L" -> "l" [] ch = "O" -> "o" [] ch = "E" -> "e"
      [] OTHER -> ch

lower(text) == [i \in DOMAIN text |-> lower_char(text[i])]

\* str.strip
RECURSIVE strip(_)
strip(text) ==
    IF text = <<>> THEN text
    ELSE IF Head(text) = " " THEN strip(Tail(text))
    ELSE IF text[Len(text)] = " " THEN strip(SubSeq(text, 1, Len(text) - 1))
    ELSE text

\* str.replace(",", ".")
replace_comma(text) == [i \in DOMAIN text |-> IF text[i] = "," THEN "." ELSE text[i]]

digit_value(ch) ==
    CASE ch = "0" -> 0 [] ch = "1" -> 1 [] ch = "2" -> 2 [] ch = "3" -> 3
      [] ch = "4" -> 4 [] ch = "5" -> 5 [] ch = "6" -> 6 [] ch = "7" -> 7
      [] ch = "8" -> 8 [] OTHER -> 9

RECURSIVE digits_value(_)
digits_value(text) ==
    IF text = <<>> THEN 0
    ELSE 10 * digits_value(SubSeq(text, 1, Len(text) - 1)) + digit_value(text[Len(text)])

\* A float with the zeros at the end of its fraction dropped.
RECURSIVE reduced(_, _)
reduced(mant, scale) ==
    IF scale > 0 /\ mant % 10 = 0 THEN reduced(mant \div 10, scale - 1)
    ELSE Float(mant, scale)

\* float(text): surrounding blanks are ignored; "nan" and "inf" in any
\* case are floats; digits with at most one point are a number; anything
\* else raises ValueError.
float(text) ==
    LET v == strip(text)
        points == {i \in DOMAIN v : v[i] = "."}
        plain == SelectSeq(v, LAMBDA ch : ch # ".")
    IN IF lower(v) = <<"n", "a", "n">> THEN NaNValue
       ELSE IF lower(v) = <<"i", "n", "f">> THEN InfValue
       ELSE IF /\ plain # <<>>
               /\ \A i \in DOMAIN plain : plain[i] \in DigitChars
               /\ Cardinality(points) <= 1
       THEN reduced(digits_value(plain),
                    IF points = {} THEN 0 ELSE Len(v) - (CHOOSE i \in points : TRUE))
       ELSE ValueError

\* str(value), as astype(str) applies it to the cells of an object column
astype_str(value) ==
    CASE value.kind = "None" -> <<"N", "o", "n", "e">>
      [] value.kind = "nan" -> <<"n", "a", "n">>
      [] OTHER -> value.chars

\* _normalize_dataframe_for_oracle on a cell of a column that is not a
\* date column: an object column is turned into text, commas become
\* points, and "", "nan" and "NaN" become None; a column of another dtype
\* is left alone.
normalize_for_oracle(value, dtype) ==
    IF dtype = "object"
    THEN LET text == replace_comma(astype_str(value)) IN
         IF text \in {<<>>, <<"n", "a", "n">>, <<"N", "a", "N">>}
         THEN NoneValue ELSE Str(text)
    ELSE value

\* clean_value(value, col_name), number_column telling whether col_name is
\* in TABLE_NUMBER_COLUMNS[table_name].
clean_value(value, number_column) ==
    IF value.kind = "None" THEN NoneValue
    ELSE IF value.kind = "nan" THEN NoneValue
    ELSE IF value.kind = "str"
    THEN LET v == strip(value.chars) IN
         IF lower(v) \in {<<"n", "o", "n", "e">>, <<"n", "u", "l", "l">>, <<>>}
         THEN NoneValue
         ELSE IF number_column
         THEN LET f == float(replace_comma(v)) IN
              IF f = ValueError THEN NoneValue ELSE f
         ELSE Str(v)
    ELSE value

\* A cell of a one-row frame on its way to the staging table.
\*   pc      "input", "normalized", "cleaned", then "written" or "raised"
\*   value   the cell as the frame came in
\*   bound   the cell as it stands after the steps taken so far
InputCell(value, dtype, number_column) ==
    [pc |-> "input", dtype |-> dtype, number_column |-> number_column,
     value |-> value, bound |-> value]

NoCell == [InputCell(NoneValue, "object", FALSE) EXCEPT !.pc = "none"]

cellFrame ==
    <<appVars, dbVars, shellVars, detailVars, accountVars, schedule_dialog,
      oracle_client, oracleConfigVars, recent_logs>>

\* write_dataframes_to_tmp_tables: df = self._normalize_dataframe_for_oracle(df)
NormalizeCell ==
    /\ cell.pc = "input"
    /\ cell' = [cell EXCEPT !.pc = "normalized",
                            !.bound = normalize_for_oracle(cell.value, cell.dtype)]
    /\ UNCHANGED cellFrame

\* _insert_dataframe_oracle: clean_row.append(clean_value(row[col], col))
CleanCell ==
    /\ cell.pc = "normalized"
    /\ cell' = [cell EXCEPT !.pc = "cleaned",
                            !.bound = clean_value(cell.bound, cell.number_column)]
    /\ UNCHANGED cellFrame

\* cursor.executemany(insert_sql, batch): a float that is not a number
\* cannot be bound to a NUMBER column and makes the statement raise.
ExecuteBatch ==
    /\ cell.pc = "cleaned"
    /\ cell' = [cell EXCEPT !.pc = IF cell.bound.kind \in {"nan", "inf"}
                                   THEN "raised" ELSE "written"]
    /\ UNCHANGED cellFrame

\* ---------------------------------------------------------------------
\* Table config_oracle with its rows: save_oracle_config and
\* get_oracle_config / get_oracle_config_threadsafe.
\* ---------------------------------------------------------------------
MaxOracleSaves == 3

ConnectionNames == {"Producao", "Homologacao"}
Hosts == {"h1", "h2"}

NoOracleConfig ==
    [id |-> 0, nome_conexao |-> "", host |-> "", created_at |-> 0, updated_at |-> 0]

\* SELECT id FROM config_oracle WHERE nome_conexao = ?
existing(nome_conexao) ==
    {i \in DOMAIN config_oracle_table :
        config_oracle_table[i].nome_conexao = nome_conexao}

\* The statement save_oracle_config executes: UPDATE of the row that has
\* the name, which sets updated_at and leaves created_at, or INSERT of a
\* row with the column defaults (is_active 1, both stamps
\* CURRENT_TIMESTAMP).
saved_table(nome_conexao, host) ==
    IF existing(nome_conexao) # {}
    THEN [i \in DOMAIN config_oracle_table |->
            IF i \in existing(nome_conexao)
            THEN [config_oracle_table[i] EXCEPT !.host = host, !.updated_at = clock]
            ELSE config_oracle_table[i]]
    ELSE Append(config_oracle_table,
                [id |-> Len(config_oracle_table) + 1, nome_conexao |-> nome_conexao,
                 host |-> host, created_at |-> clock, updated_at |-> clock])

oracleConfigFrame ==
    <<appVars, dbVars, shellVars, detailVars, accountVars, schedule_dialog,
      oracle_client, cell, recent_logs>>

\* save_oracle_config(nome_conexao, host, ...): encrypt_ok = FALSE is
\* encryption_manager.encrypt raising, before any statement; the call
\* then returns False.
save_oracle_config(nome_conexao, host, encrypt_ok) ==
    /\ Len(oracle_saved) < MaxOracleSaves
    /\ IF encrypt_ok
       THEN /\ config_oracle_table' = saved_table(nome_conexao, host)
            /\ oracle_saved' = Append(oracle_saved,
                                      [nome_conexao |-> nome_conexao, host |-> host])
       ELSE UNCHANGED oracleConfigVars
    /\ UNCHANGED oracleConfigFrame

\* A second passes between two saves.
OracleClockTick ==
    /\ clock < MaxSeconds
    /\ clock' = clock + 1
    /\ UNCHANGED <<storeVars, jobs, threads, fire_log, uiVars, dbVars,
                   shellVars, localVars>>

\* get_oracle_config(nome_conexao) with a name: the active row of that name.
get_oracle_config_named(nome_conexao) ==
    IF existing(nome_conexao) = {} THEN {NoOracleConfig}
    ELSE {config_oracle_table[i] : i \in existing(nome_conexao)}

\* get_oracle_config() / get_oracle_config_threadsafe() without a name:
\* SELECT * FROM config_oracle WHERE is_active = 1 ORDER BY created_at
\* DESC LIMIT 1.  Every row is active; the answers are the rows no other
\* row was created after, SQL leaving open which one of several.
get_oracle_config ==
    IF config_oracle_table = <<>> THEN {NoOracleConfig}
    ELSE {config_oracle_table[i] : i \in
            {i \in DOMAIN config_oracle_table :
               \A j \in DOMAIN config_oracle_table :
                  config_oracle_table[j].created_at <= config_oracle_table[i].created_at}}


\* The accounts, dialogs and clients followed on their own, untouched.
AccountsAtRest ==
    /\ usuarios = DefaultUsers
    /\ password_result = NoPasswordResult

DialogAtRest == schedule_dialog = NoScheduleDialog

ClientAtRest == oracle_client = NoOracleClient

CellAtRest == cell = NoCell

OracleConfigAtRest ==
    /\ config_oracle_table = <<>>
    /\ oracle_saved = <<>>

LogViewAtRest == recent_logs = NoLogs

ExtraAtRest ==
    /\ AccountsAtRest
    /\ DialogAtRest
    /\ ClientAtRest
    /\ CellAtRest
    /\ OracleConfigAtRest
    /\ LogViewAtRest

\* The detailed model of the local store, idle: no call made, no row of
\* config_oriontax or clientes followed, no connection test run.
LocalStoreAtRest ==
    /\ sqlite_sequence = Cardinality(ScheduleIds)
    /\ store_calls = [t \in StoreThreads |-> NoCall]
    /\ handle_users = {}
    /\ private_conns = {}
    /\ config_oriontax_table = <<>>
    /\ config_oriontax_durable = <<>>
    /\ save_results = <<>>
    /\ clientes_table = <<>>
    /\ cliente_result = NoResult
    /\ test_clients = <<>>

LocalAtRest ==
    /\ LocalStoreAtRest
    /\ ExtraAtRest

\* No transfer started, no manual operation requested.
TransfersAtRest ==
    /\ logs_execucao = <<>>
    /\ threads = <<>>
    /\ fire_log = ""
    /\ clock = 0
    /\ worker = IdleRun
    /\ finished_signal = <<>>
    /\ send_button = TRUE
    /\ receive_button = TRUE
    /\ last_warning = ""
    /\ manual_runs = 0

\* The enterprise database with no writer connected.
OraAtRest ==
    /\ tmp_tables = NoTmpRows
    /\ ora_sessions = [w \in Writers |-> IdleOraSession]

\* The cloud database with no writer connected.
FullSchema == [t \in PgTableNames |-> AllColumns]

NoLimits == [t \in PgTableNames |-> [codigo_produto |-> NoLimit, ncm |-> NoLimit]]

PgAtRest ==
    /\ pg_tables = NoPgRows
    /\ pg_constraint = [t \in PgTableNames |-> FALSE]
    /\ pg_columns = FullSchema
    /\ pg_maxlen = NoLimits
    /\ pg_sessions = <<>>

\* The schedules of the transfer specifications fire every day.
ScheduleRows ==
    [tipo_operacao : OpTypes, frequencia : {"DIARIA"}, dias_semana : {<<>>},
     is_active : BOOLEAN, ultima_execucao : {0}]

\* The store as found at start-up, the scheduler started (load_schedules has
\* registered one job per active schedule), the main window shown.
Init ==
    /\ config_oracle \in BOOLEAN
    /\ config_oriontax \in BOOLEAN
    /\ clientes \in [Clients -> BOOLEAN]
    /\ agendamentos \in [ScheduleIds -> ScheduleRows]
    /\ agendamentos[1].tipo_operacao = "ENVIAR"
    /\ agendamentos[2].tipo_operacao = "BUSCAR"
    /\ logs_execucao = <<>>
    /\ jobs = {id \in ScheduleIds : agendamentos[id].is_active}
    /\ threads = <<>>
    /\ fire_log = ""
    /\ clock = 0
    /\ worker = IdleRun
    /\ finished_signal = <<>>
    /\ send_button = TRUE
    /\ receive_button = TRUE
    /\ last_warning = ""
    /\ manual_runs = 0
    /\ ShellStarted
    /\ LocalAtRest
    /\ OraAtRest
    /\ PgAtRest

Next ==
    \/ \E id \in ScheduleIds : ExecuteSync(id)
    \/ \E i \in 1..MaxRuns : ClientThreadStep(i)
    \/ \E i \in 1..MaxRuns : ClientThreadReport(i)
    \/ \E i \in 1..MaxRuns : ClientThreadExcept(i)
    \/ \E op \in OpTypes, current \in Clients \cup {"none"}, reply \in {"Yes", "No"} :
          /\ current \in ActiveClients \cup {"none"}
          /\ (current = "none") = (ActiveClients = {})
          /\ ExecuteOperation(op, current, reply)
    \/ WorkerStep
    \/ WorkerReport
    \/ WorkerExcept
    \/ OnWorkerFinished
    \/ SaveOracleConfig
    \/ SaveOrionTaxConfig

Spec == Init /\ [][Next]_vars

(***************************************************************************)
(* The specification of the enterprise staging tables: writers that call   *)
(* write_dataframes_to_tmp_tables at overlapping times.                    *)
(***************************************************************************)
\* The application at rest: configured, nothing started.
BaseAtRest ==
    /\ config_oracle = TRUE
    /\ config_oriontax = TRUE
    /\ clientes = [c \in Clients |-> TRUE]
    /\ agendamentos = [id \in ScheduleIds |->
           [tipo_operacao |-> IF id = 1 THEN "ENVIAR" ELSE "BUSCAR",
            frequencia |-> "DIARIA", dias_semana |-> <<>>,
            is_active |-> TRUE, ultima_execucao |-> 0]]
    /\ jobs = ScheduleIds
    /\ TransfersAtRest
    /\ ShellStarted
    /\ LocalStoreAtRest

AppAtRest ==
    /\ BaseAtRest
    /\ ExtraAtRest

\* The staging tables hold what an earlier run left: nothing, or one row each.
InitTmp ==
    /\ AppAtRest
    /\ PgAtRest
    /\ tmp_tables \in {NoTmpRows, [t \in TmpTableNames |-> TmpRows(0, 1)]}
    /\ ora_sessions = [w \in Writers |-> IdleOraSession]

NextTmp ==
    \/ \E w \in Writers : WriteTmpBegin(w)
    \/ \E w \in Writers : TmpDeleteWait(w)
    \/ \E w \in Writers : TmpDelete(w)
    \/ \E w \in Writers : TmpInsert(w)
    \/ \E w \in Writers : TmpInsertError(w)
    \/ \E w \in Writers : TmpStatementError(w)
    \/ \E w \in Writers : TmpCommit(w)
    \/ \E w \in Writers : TmpRollback(w)

SpecTmp == InitTmp /\ [][NextTmp]_vars

(***************************************************************************)
(* The specifications of the cloud tables.                                 *)
(***************************************************************************)
NextViews ==
    \/ \E w \in 1..MaxWriters : WriteViewsBegin(w)
    \/ \E w \in 1..MaxWriters : ViewsPrepare(w)
    \/ \E w \in 1..MaxWriters : EnsureConstraintCheck(w)
    \/ \E w \in 1..MaxWriters : EnsureConstraintCreate(w)
    \/ \E w \in 1..MaxWriters : EnsureConstraintError(w)
    \/ \E w \in 1..MaxWriters : ViewsUpsert(w)
    \/ \E w \in 1..MaxWriters : ViewsUpsertError(w)
    \/ \E w \in 1..MaxWriters : ViewsCommit(w)
    \/ \E w \in 1..MaxWriters : ViewsCommitError(w)
    \/ \E w \in 1..MaxWriters : ViewsExcept(w)

\* Writers that call write_dataframes_to_views at overlapping times, each for
\* one client, with a frame of at most one row (carrying the cnpj of another
\* client in its source column) for each of the first two tables.
OtherCnpj(c) == CHOOSE x \in Cnpjs : x # c

SmallFrames(c) ==
    {<<>>, <<PgRow(OtherCnpj(c), <<"p">>, <<"a">>)>>}

SmallDataframes(c) ==
    {[NoFrames EXCEPT ![PgMapping[1]] = f1, ![PgMapping[2]] = f2] :
        f1 \in SmallFrames(c), f2 \in SmallFrames(c)}

CnpjOfWriter(w) == IF w = 1 THEN "11111111000111" ELSE "22222222000122"

InitViews ==
    /\ AppAtRest
    /\ OraAtRest
    /\ pg_tables \in {NoPgRows,
                      [t \in PgTableNames |->
                          {PgRow(c, <<"p">>, <<"z">>) : c \in Cnpjs}]}
    /\ pg_constraint \in {[t \in PgTableNames |-> b] : b \in BOOLEAN}
    /\ pg_columns = FullSchema
    /\ pg_maxlen = NoLimits
    /\ pg_sessions \in {[w \in 1..MaxWriters |-> IdlePgSession(CnpjOfWriter(w), d[w])] :
                           d \in [1..MaxWriters -> UNION {SmallDataframes(c) : c \in Cnpjs}]}
    /\ \A w \in PgWriters : pg_sessions[w].dataframes \in SmallDataframes(pg_sessions[w].cnpj)

SpecViews == InitViews /\ [][NextViews]_vars

\* One writer that calls write_dataframes_to_views with a frame of up to
\* MaxFrameRows rows for the first table, destination tables of every shape.
Codigos == {Null, <<"p">>, <<"p", "q">>}

Ncms == {Null, <<"a", "b">>, <<"n", "a", "n">>}

SourceRows == {PgRow("22222222000122", k, v) : k \in Codigos, v \in Ncms}

Frames ==
    UNION {[1..n -> SourceRows] : n \in 1..MaxFrameRows}
    \cup {<<[cnpj |-> "22222222000122", ncm |-> <<"a", "b">>]>>}

InitDedup ==
    /\ AppAtRest
    /\ OraAtRest
    /\ pg_tables \in {NoPgRows,
                      [t \in PgTableNames |->
                          {PgRow(c, <<"p">>, <<"z">>) : c \in Cnpjs}]}
    /\ pg_constraint \in {[t \in PgTableNames |-> b] : b \in BOOLEAN}
    /\ pg_columns \in {[t \in PgTableNames |-> cs] :
                          cs \in {AllColumns, {"cnpj", "codigo_produto"}, {"cnpj", "ncm"}}}
    /\ pg_maxlen \in {[t \in PgTableNames |-> [codigo_produto |-> a, ncm |-> b]] :
                          a \in {NoLimit, 1}, b \in {NoLimit, 1}}
    /\ pg_sessions \in {<<IdlePgSession("11111111000111",
                             [NoFrames EXCEPT ![PgMapping[1]] = f1, ![PgMapping[2]] = f2])>> :
                           f1 \in Frames, f2 \in SmallFrames("11111111000111")}

SpecDedup == InitDedup /\ [][NextViews]_vars

(***************************************************************************)
(* The specification of the application shell: from the initial login to   *)
(* the end of the process, with the scheduler and the manual worker going  *)
(* on behind it.  One client is active, one is soft-deleted; one schedule  *)
(* is active, one is not.  The active schedule sends; the operator, when   *)
(* the window is shown, fetches.                                           *)
(***************************************************************************)
InitShell ==
    /\ config_oracle = TRUE
    /\ config_oriontax = TRUE
    /\ clientes = [c \in Clients |-> c = "c1"]
    /\ agendamentos = [id \in ScheduleIds |->
           [tipo_operacao |-> IF id = 1 THEN "ENVIAR" ELSE "BUSCAR",
            frequencia |-> "DIARIA", dias_semana |-> <<>>,
            is_active |-> id = 1, ultima_execucao |-> 0]]
    /\ jobs = load_schedules({}, DOMAIN agendamentos)
    /\ TransfersAtRest
    /\ app_pc = "login"
    /\ login_dialog = OpenDialog("initial")
    /\ initial_login = "pending"
    /\ main_window = "none"
    /\ tray_icon = TRUE
    /\ tray_message = "none"
    /\ scheduler_running = TRUE
    /\ db_conn = TRUE
    /\ LocalAtRest
    /\ OraAtRest
    /\ PgAtRest

NextShell ==
    \/ \E result \in LoginResults : LoginDialogEnds(result)
    \/ ShowLogin
    \/ AppRun
    \/ TrayOpen
    \/ ShowMainWindow
    \/ MinimizeToTray
    \/ TrayQuit
    \/ \E id \in ScheduleIds : Alive /\ scheduler_running /\ ExecuteSync(id)
    \/ \E i \in 1..MaxRuns : Alive /\ ClientThreadStep(i)
    \/ \E i \in 1..MaxRuns : Alive /\ ClientThreadReport(i)
    \/ \E i \in 1..MaxRuns : Alive /\ ClientThreadExcept(i)
    \/ \E current \in ActiveClients, reply \in {"Yes", "No"} :
          WindowInput /\ ExecuteOperation("BUSCAR", current, reply)
    \/ Alive /\ WorkerStep
    \/ Alive /\ WorkerReport
    \/ Alive /\ WorkerExcept
    \/ Alive /\ Dispatching /\ OnWorkerFinished

SpecShell == InitShell /\ [][NextShell]_vars

\* The same, with every thread of the process going on as long as it can.
SpecShellFair == SpecShell /\ WF_vars(NextShell)

(***************************************************************************)
(* The specification of the schedule registry: the Schedules tab of the    *)
(* main window, after the scheduler has been started on the rows an        *)
(* earlier session left.                                                   *)
(***************************************************************************)
DialogRows ==
    {ScheduleRow(op, choice, is_active, 0) :
        op \in OpTypes, choice \in DialogChoices, is_active \in BOOLEAN}

\* The rows an earlier session left: rows of the dialog that were registered
\* as the dialog asked.
StartRows ==
    {row \in DialogRows : row.is_active => create_trigger(schedule_dict(1, row))}

InitSchedules ==
    /\ config_oracle = TRUE
    /\ config_oriontax = TRUE
    /\ clientes = [c \in Clients |-> TRUE]
    /\ agendamentos \in UNION {[D -> StartRows] : D \in {{}, {1}}}
    /\ jobs = load_schedules({}, DOMAIN agendamentos)
    /\ TransfersAtRest
    /\ ShellStarted
    /\ sqlite_sequence = Cardinality(DOMAIN agendamentos)
    /\ store_calls = [t \in StoreThreads |-> NoCall]
    /\ handle_users = {}
    /\ private_conns = {}
    /\ config_oriontax_table = <<>>
    /\ config_oriontax_durable = <<>>
    /\ save_results = <<>>
    /\ clientes_table = <<>>
    /\ cliente_result = NoResult
    /\ test_clients = <<>>
    /\ ExtraAtRest
    /\ OraAtRest
    /\ PgAtRest

NextSchedules ==
    \/ \E op \in OpTypes, choice \in DialogChoices, is_active \in BOOLEAN :
          AddSchedule(op, choice, is_active)
    \/ \E id \in ScheduleIds, op \in OpTypes, choice \in DialogChoices, is_active \in BOOLEAN :
          EditSchedule(id, op, choice, is_active)
    \/ \E id \in ScheduleIds, reply \in {"Yes", "No"} : DeleteSchedule(id, reply)

SpecSchedules == InitSchedules /\ [][NextSchedules]_vars

(***************************************************************************)
(* The specifications of the local store and of the connection test.       *)
(***************************************************************************)
InitLocal ==
    /\ AppAtRest
    /\ OraAtRest
    /\ PgAtRest

NextStore ==
    \/ \E t \in StoreThreads, fn \in PrivateConnection, connected \in BOOLEAN :
          StoreCallBegin(t, fn, connected)
    \/ \E t \in StoreThreads :
          \E fn \in {CallSites(t)[i] : i \in DOMAIN CallSites(t)} : StoreHandleCall(t, fn)
    \/ \E t \in StoreThreads, ok \in BOOLEAN : StoreCallExecute(t, ok)
    \/ \E t \in StoreThreads : StoreCallEnd(t)
    \/ \E t \in StoreThreads : StoreCollect(t)

SpecStore == InitLocal /\ [][NextStore]_vars

NextTest ==
    \/ TestConnectionBegin
    \/ TestConnectionStep

SpecTest == InitLocal /\ [][NextTest]_vars

NextConfig ==
    \/ \E outcome \in SaveOutcomes : save_oriontax_config(outcome)
    \/ StoreCommit

SpecConfig == InitLocal /\ [][NextConfig]_vars

NextClientes ==
    \/ \E cnpj \in CnpjInputs : CreateCliente(cnpj)
    \/ \E id \in 1..(Len(clientes_table) + 1), cnpj \in CnpjInputs : UpdateCliente(id, cnpj)
    \/ \E id \in 1..(Len(clientes_table) + 1) : DeleteCliente(id)

SpecClientes == InitLocal /\ [][NextClientes]_vars

\* --- Accounts: change_password called with any name, any old and new
\* password, on a table holding the default account and possibly a second
\* row (active or not) that was put there by hand: the program reads any
\* row of usuarios but inserts only admin.
SecondUser ==
    { [password_hash |-> hash_password([head |-> "secret1", tail |-> ""], "s2"),
       is_active |-> a] : a \in BOOLEAN }

InitAccounts ==
    /\ BaseAtRest
    /\ OraAtRest
    /\ PgAtRest
    /\ DialogAtRest
    /\ ClientAtRest
    /\ CellAtRest
    /\ OracleConfigAtRest
    /\ LogViewAtRest
    /\ password_result = NoPasswordResult
    /\ \/ usuarios = DefaultUsers
       \/ \E row \in SecondUser :
              usuarios = [u \in {"admin", "maria"} |->
                            IF u = "admin" THEN DefaultUsers["admin"] ELSE row]

NextAccounts ==
    \E username \in Usernames, old_password \in Passwords,
       new_password \in Passwords, salt \in Salts, commit_ok \in BOOLEAN :
        ChangePassword(username, old_password, new_password, salt, commit_ok)

SpecAccounts == InitAccounts /\ [][NextAccounts]_vars

\* --- The execution log: rows appended by any thread while the wall clock
\* advances, read back by the logs tab.
InitLogs ==
    /\ AppAtRest
    /\ OraAtRest
    /\ PgAtRest

NextLogs ==
    \/ \E tipo \in {"ENVIAR", "BUSCAR"}, status \in {"SUCESSO", "ERRO"} :
          AddLog(tipo, status)
    \/ ClockTick
    \/ \E limit \in 1..MaxLogRows : GetLogsRecentes(limit)

SpecLogs == InitLogs /\ [][NextLogs]_vars

\* --- The schedule dialog: opened for a new row or on a row it saved
\* before, radio buttons toggled and day_spin edited in any order, then
\* saved or cancelled.
DaySpinInputs == {0, 1, 6, 7, 31}

NextDialog ==
    \/ OpenNewSchedule
    \/ \E id \in ScheduleIds : OpenEditSchedule(id)
    \/ \E radio \in {"daily", "weekly", "monthly"} : ToggleRadio(radio)
    \/ \E v \in DaySpinInputs : EditDay(v)
    \/ CancelSchedule
    \/ \E op \in OpTypes, is_active \in BOOLEAN : SaveSchedule(op, is_active)

\* The rows an earlier session left are rows the scheduler accepts.
InitDialog ==
    /\ InitSchedules
    /\ \A id \in DOMAIN agendamentos : create_trigger(get_schedule(id))

SpecDialog == InitDialog /\ [][NextDialog]_vars

\* --- One OracleClient on which connect() and disconnect() are called
\* several times, in a process that starts in thin or in thick mode.
InitConnect ==
    /\ BaseAtRest
    /\ OraAtRest
    /\ PgAtRest
    /\ AccountsAtRest
    /\ DialogAtRest
    /\ CellAtRest
    /\ OracleConfigAtRest
    /\ LogViewAtRest
    /\ \E process_thick \in BOOLEAN : oracle_client = FreshOracleClient(process_thick)

NextConnect ==
    \/ \E first \in ConnectOutcomes, init_ok \in BOOLEAN, second \in ConnectOutcomes :
          Connect(first, init_ok, second)
    \/ Disconnect

SpecConnect == InitConnect /\ [][NextConnect]_vars

\* --- Fires of three schedules, two of them of one operation type, with
\* the transfers they start.
StampIds == {1, 2, 3}

InitStamp ==
    /\ config_oracle \in BOOLEAN
    /\ config_oriontax \in BOOLEAN
    /\ clientes \in [Clients -> BOOLEAN]
    /\ agendamentos \in [StampIds -> ScheduleRows]
    /\ agendamentos[1].tipo_operacao = "ENVIAR"
    /\ agendamentos[2].tipo_operacao = "ENVIAR"
    /\ agendamentos[3].tipo_operacao = "BUSCAR"
    /\ jobs = {id \in StampIds : agendamentos[id].is_active}
    /\ TransfersAtRest
    /\ ShellStarted
    /\ LocalAtRest
    /\ OraAtRest
    /\ PgAtRest

NextStamp ==
    \/ \E id \in StampIds : ExecuteSync(id)
    \/ \E i \in 1..MaxRuns : ClientThreadStep(i)
    \/ \E i \in 1..MaxRuns : ClientThreadReport(i)
    \/ \E i \in 1..MaxRuns : ClientThreadExcept(i)

SpecStamp == InitStamp /\ [][NextStamp]_vars

\* --- One cell written through the enterprise write path: any of the
\* texts or None in an object column, a float in a float64 column, the
\* column a NUMBER column or not.
CellInputs ==
    {InputCell(value, "object", n) :
        value \in {Str(t) : t \in CellTexts} \cup {NoneValue}, n \in BOOLEAN}
    \cup {InputCell(value, "float64", n) :
        value \in {Float(125, 1), NaNValue}, n \in BOOLEAN}

InitCells ==
    /\ BaseAtRest
    /\ OraAtRest
    /\ PgAtRest
    /\ AccountsAtRest
    /\ DialogAtRest
    /\ ClientAtRest
    /\ OracleConfigAtRest
    /\ LogViewAtRest
    /\ cell \in CellInputs

NextCells ==
    \/ NormalizeCell
    \/ CleanCell
    \/ ExecuteBatch

SpecCells == InitCells /\ [][NextCells]_vars

\* --- The connection settings dialog saved again and again, under either
\* name and with either host, seconds passing or not between the saves.
InitOracleConfig ==
    /\ AppAtRest
    /\ OraAtRest
    /\ PgAtRest

NextOracleConfig ==
    \/ \E nome_conexao \in ConnectionNames, host \in Hosts, encrypt_ok \in BOOLEAN :
          save_oracle_config(nome_conexao, host, encrypt_ok)
    \/ OracleClockTick

SpecOracleConfig == InitOracleConfig /\ [][NextOracleConfig]_vars

\* --- The application with the worker thread and the event loop of the
\* UI thread going on: a QThread that has been started runs its next
\* step, and a signal queued for the UI thread is delivered.
SpecWorkerFair ==
    /\ Spec
    /\ WF_vars(WorkerStep)
    /\ WF_vars(WorkerReport)
    /\ WF_vars(WorkerExcept)
    /\ WF_vars(OnWorkerFinished)


(***************************************************************************)
(* Properties of the transfer paths (specification Spec).                  *)
(***************************************************************************)
Done(r) == r.pc = "done"

Exceptions == {"connect_src_error", "read_error", "connect_dst_error", "write_error"}

\* The log rows a run appended.
RowsLoggedBy(r) == {k \in r.logged : k \in DOMAIN logs_execucao}

\* Thread i can take its next step whatever the other threads have done.
ThreadCanProceed(i) ==
    ENABLED (ClientThreadStep(i) \/ ClientThreadReport(i) \/ ClientThreadExcept(i))

\* C1: the per-client threads of a schedule fire are isolated from one
\* another.  A thread that has not finished is never blocked by another
\* thread's failure (it can always take its next step) and has appended no
\* row; a thread that has finished has appended exactly one row, which names
\* its own client and operation and is SUCESSO when its write succeeded and
\* ERRO otherwise; and every row of the log was appended by exactly one thread.
C1_FailureIsolated ==
    /\ \A i \in DOMAIN threads :
          LET r == threads[i] IN
          /\ ~Done(r) => (r.logged = {} /\ ThreadCanProceed(i))
          /\ Done(r) =>
                /\ Cardinality(r.logged) = 1
                /\ \A k \in r.logged :
                      /\ k \in DOMAIN logs_execucao
                      /\ logs_execucao[k].cliente = r.cliente
                      /\ logs_execucao[k].tipo_operacao = r.op
                      /\ logs_execucao[k].status =
                             (IF r.ext = "write_true" THEN "SUCESSO" ELSE "ERRO")
    /\ \A k \in DOMAIN logs_execucao :
          Cardinality({i \in DOMAIN threads : k \in threads[i].logged}) = 1

\* Two threads of one fire: the first client's thread failed to connect and
\* logged ERRO, the second client's thread then completed and logged SUCESSO.
C1_Witness ==
    /\ Len(threads) = 2
    /\ threads[1].cliente # threads[2].cliente
    /\ threads[1].op = threads[2].op
    /\ Done(threads[1]) /\ threads[1].ext = "connect_src_error"
    /\ Done(threads[2]) /\ threads[2].ext = "write_true"
    /\ Len(logs_execucao) = 2
    /\ logs_execucao[1].status = "ERRO" /\ logs_execucao[1].cliente = threads[1].cliente
    /\ logs_execucao[2].status = "SUCESSO" /\ logs_execucao[2].cliente = threads[2].cliente

\* The runs of the model: the per-client threads and the manual worker.
Runs == {threads[i] : i \in DOMAIN threads} \cup {worker}

\* C2: every ENVIAR run whose write succeeded, scheduled or manual, has
\* appended exactly one SUCESSO row whose registros_processados is the
\* number of rows it read.
C2_SuccessLoggedOnce ==
    \A r \in Runs :
        (r.op = "ENVIAR" /\ Done(r) /\ r.ext = "write_true") =>
            /\ Cardinality(RowsLoggedBy(r)) = 1
            /\ \A k \in RowsLoggedBy(r) :
                  /\ logs_execucao[k].status = "SUCESSO"
                  /\ logs_execucao[k].registros_processados = r.total_records

\* C3: every run in which an exception was raised, scheduled or manual, has
\* caught it and appended an ERRO row.
C3_ExceptionLogged ==
    \A r \in Runs :
        (Done(r) /\ r.ext \in Exceptions) =>
            \E k \in RowsLoggedBy(r) : logs_execucao[k].status = "ERRO"

\* C4: a manual run and a scheduled run of the same direction whose external
\* systems behaved the same report the same outcome; when the write returned
\* (False, msg) both report failure.
C4_SameOutcome ==
    \A i \in DOMAIN threads :
        (Done(threads[i]) /\ Done(worker) /\ threads[i].op = worker.op
            /\ threads[i].ext = worker.ext) =>
            /\ threads[i].outcome = worker.outcome
            /\ worker.ext = "write_false" => worker.outcome = "failure"

\* C5: a manual request made while a configuration is absent, and a schedule
\* fire made while a configuration is absent or no client is active, start
\* no run (hence open no connection) and append no log row.
C5_NothingStartsUnconfigured ==
    [][ /\ \A id \in ScheduleIds :
              (ExecuteSync(id)
                  /\ (~config_oracle \/ ~config_oriontax \/ ActiveClients = {}))
              => UNCHANGED <<threads, worker, logs_execucao>>
        /\ \A op \in OpTypes, current \in Clients \cup {"none"}, reply \in {"Yes", "No"} :
              (ExecuteOperation(op, current, reply)
                  /\ (~config_oracle \/ ~config_oriontax))
              => UNCHANGED <<threads, worker, logs_execucao>>
      ]_vars

\* A fire and a manual request have both been turned down for a missing
\* configuration: no thread, no worker, no log row.
C5_Witness ==
    /\ ~config_oracle \/ ~config_oriontax
    /\ fire_log \in {"Configuração Oracle não encontrada",
                     "Configuração OrionTax não encontrada"}
    /\ last_warning = "Configuração Pendente"
    /\ ActiveClients # {}
    /\ threads = <<>>
    /\ worker.pc = "idle"
    /\ logs_execucao = <<>>

(***************************************************************************)
(* Properties of the cloud write (specification SpecViews).                *)
(***************************************************************************)
\* C6: write_dataframes_to_views is all-or-nothing: nothing of a call is
\* durable before its final commit, and nothing of a call that returned
\* (False, msg) is durable.
C6_ViewsAllOrNothing ==
    \A w \in PgWriters :
        (pg_sessions[w].pc # "returned" \/ ~pg_sessions[w].result) =>
            pg_sessions[w].durable = NoPgRows

(***************************************************************************)
(* Properties of the enterprise write (specification SpecTmp).             *)
(***************************************************************************)
\* C7: write_dataframes_to_tmp_tables is all-or-nothing.  A step of a writer
\* other than its final commit changes no committed row; the final commit
\* applies all the deletes and all the inserts of the call together; a call
\* in which a statement failed ends by raising; and once the call has
\* raised, none of its rows is committed and its transaction holds nothing
\* that a later commit could apply.
C7_TmpAllOrNothing ==
    [][ \A w \in Writers :
           LET a == ora_sessions[w]
               b == ora_sessions'[w]
           IN
           /\ (a # b /\ ~(a.pc = "commit" /\ b.pc = "returned")) =>
                  tmp_tables' = tmp_tables
           /\ (a.pc = "commit" /\ b.pc = "returned") =>
                  tmp_tables' = [t \in TmpTableNames |->
                                    (tmp_tables[t] \ a.dels[t]) \cup a.ins[t]]
           /\ b.failed_at # "none" => b.pc \in {"rollback", "raised"}
           /\ b.pc = "raised" =>
                  /\ \A t \in TmpTableNames : \A r \in tmp_tables'[t] : r[1] # w
                  /\ b.dels = NoTmpRows /\ b.ins = NoTmpRows
      ]_vars

\* A call raised in a batch insert, after the four deletes, while no other
\* writer was active: the tables still hold the earlier rows.
C7_Witness ==
    \E w \in Writers :
        /\ ora_sessions[w].pc = "raised"
        /\ ora_sessions[w].failed_at = "insert"
        /\ \A y \in Writers \ {w} : ora_sessions[y].pc = "idle"
        /\ tmp_tables = [t \in TmpTableNames |-> TmpRows(0, 1)]

\* C8: once the overlapping BUSCAR runs have all finished, the rows of the
\* staging tables are those of one single run that committed, never a
\* mixture of the rows of two runs.
C8_LastWriterWinsInFull ==
    ((\A w \in Writers : ora_sessions[w].pc \in {"returned", "raised"})
        /\ (\E w \in Writers : ora_sessions[w].pc = "returned"))
    => \E w \in Writers :
          /\ ora_sessions[w].pc = "returned"
          /\ \A t \in TmpTableNames : \A r \in tmp_tables[t] : r[1] = w

(***************************************************************************)
(* Properties of the cloud write, continued (specification SpecViews).     *)
(***************************************************************************)
\* C9: a step of a writer called with cnpj A changes no committed row whose
\* cnpj is not A: it adds none (the cnpj column of the source is overridden)
\* and it alters or removes none, however the writers interleave.
C9_OnlyOwnCnpj ==
    [][ \A w \in PgWriters :
           pg_sessions'[w] # pg_sessions[w] =>
               \A t \in PgTableNames :
                   {q \in pg_tables'[t] : q.cnpj # pg_sessions[w].cnpj}
                       = {q \in pg_tables[t] : q.cnpj # pg_sessions[w].cnpj}
      ]_vars

\* Both writers have returned success; the first one's frame carried the
\* other client's cnpj, its row is stored under its own cnpj and the other
\* client's earlier row is still there.
C9_Witness ==
    LET t == PgMapping[1] IN
    /\ \A w \in PgWriters : pg_sessions[w].pc = "returned" /\ pg_sessions[w].result
    /\ pg_sessions[1].dataframes[t] = <<PgRow("22222222000122", <<"p">>, <<"a">>)>>
    /\ pg_sessions[2].dataframes[t] = <<>>
    /\ PgRow("11111111000111", <<"p">>, <<"a">>) \in pg_tables[t]
    /\ PgRow("22222222000122", <<"p">>, <<"z">>) \in pg_tables[t]

(***************************************************************************)
(* Properties of the pre-processing (specification SpecDedup).             *)
(***************************************************************************)
\* The positions of a frame that hold the last occurrence of their key.
LastOccurrences(df) ==
    {i \in DOMAIN df :
        /\ df[i].codigo_produto # Null
        /\ \A j \in DOMAIN df : j > i => df[j].codigo_produto # df[i].codigo_produto}

\* A row as the destination table t stores it.
Stored(r, t) ==
    [r EXCEPT !.codigo_produto = TruncateValue(@, pg_maxlen[t].codigo_produto),
              !.ncm = TruncateValue(@, pg_maxlen[t].ncm)]

C11_ShownOnlyAfterFreshLogin ==
    [][/\ (initial_login # "pending" /\ main_window # "visible" /\ main_window' = "visible")
          => /\ login_dialog = [request |-> "tray", result |-> "Accepted"]
             /\ login_dialog' = NoDialog
       /\ (login_dialog.request = "tray" /\ login_dialog.result \in {"Rejected", "Raised"}
             /\ login_dialog' # login_dialog)
          => /\ login_dialog' = NoDialog
             /\ main_window' = main_window
       /\ (main_window = "visible" /\ main_window' = "hidden")
          => /\ login_dialog = NoDialog
             /\ login_dialog' = NoDialog]_vars

\* The window is visible and no login is open, while the last balloon of the
\* tray icon is the one minimize_to_tray displays: the window was hidden and
\* a login from the tray has shown it again.
C11_Witness ==
    /\ initial_login = "Accepted"
    /\ app_pc = "exec"
    /\ main_window = "visible"
    /\ tray_message = "Sistema minimizado"
    /\ login_dialog = NoDialog

\* C12: when the initial LoginDialog is cancelled or fails, the scheduler is
\* stopped, the local store is disconnected, the main window is never
\* created, and the event loop of the process comes to an end.
C12_FailedLoginQuits ==
    /\ [](initial_login \in {"Rejected", "Raised"}
            => ~scheduler_running /\ ~db_conn /\ main_window = "none")
    /\ (initial_login \in {"Rejected", "Raised"}) ~> (app_pc = "exited")

\* C13: a step that hides the visible window while the tray icon stays
\* (closeEvent) leaves the scheduler running, its jobs, the started threads,
\* the store handle, the manual worker and its undelivered signals as they
\* were; and once the initial login has succeeded the scheduler is stopped and
\* the store handle closed only by a step taken from the tray icon that
\* removes the tray icon (quit_application).
C13_CloseOnlyHides ==
    [][/\ (main_window = "visible" /\ main_window' = "hidden" /\ tray_icon' = tray_icon)
          => UNCHANGED <<scheduler_running, db_conn, jobs, threads, worker,
                         finished_signal, app_pc>>
       /\ (initial_login = "Accepted"
             /\ (scheduler_running' # scheduler_running \/ db_conn' # db_conn))
          => /\ TrayInput
             /\ ~tray_icon'
             /\ ~scheduler_running' /\ ~db_conn'
             /\ app_pc' = "exited"]_vars

\* The window has been closed during a manual transfer: it is hidden, the
\* worker is in the middle of its run, the scheduler runs with its job and
\* the store handle is open.
C13_Witness ==
    /\ main_window = "hidden"
    /\ tray_message = "Sistema minimizado"
    /\ tray_icon
    /\ worker.pc \notin {"idle", "done"}
    /\ scheduler_running
    /\ db_conn
    /\ jobs = {1}

(***************************************************************************)
(* Properties of the schedule registry (specification SpecSchedules).      *)
(***************************************************************************)

\* C14: after the scheduler has started and after every add, edit and delete
\* in the Schedules tab, the jobs of the scheduler are exactly the persisted
\* schedules with is_active set.
C14_JobsMirrorActiveSchedules ==
    jobs = {id \in DOMAIN agendamentos : agendamentos[id].is_active}

(***************************************************************************)
(* Further properties of the transfer paths (specification Spec).          *)
(***************************************************************************)

\* C15: a step that starts transfer threads is a schedule fire with both
\* configurations present; it starts exactly one thread for each client
\* whose is_active flag is set at that moment and none for a soft-deleted
\* client, all for the operation of one registered schedule, and leaves the
\* earlier threads as they are.  A transfer that has finished, failed or
\* not, never takes another step: threads are started only by a fire, and
\* the manual worker is started again only by a manual click.
C15_OneTransferPerActiveClient ==
    [][/\ Len(threads') >= Len(threads)
       /\ SubSeq(threads', 1, Len(threads)) # threads
             => Len(threads') = Len(threads)
       /\ Len(threads') > Len(threads)
             => LET started == SubSeq(threads', Len(threads) + 1, Len(threads')) IN
                /\ config_oracle /\ config_oriontax
                /\ clock' = clock + 1
                /\ SubSeq(threads', 1, Len(threads)) = threads
                /\ \A c \in Clients :
                      Cardinality({i \in DOMAIN started : started[i].cliente = c})
                         = IF clientes[c] THEN 1 ELSE 0
                /\ \E id \in jobs :
                      \A i \in DOMAIN started :
                         started[i] = NewRun(agendamentos[id].tipo_operacao,
                                             started[i].cliente)
       /\ \A i \in DOMAIN threads : Done(threads[i]) => threads'[i] = threads[i]
       /\ (Done(worker) /\ worker' # worker)
             => /\ manual_runs' = manual_runs + 1
                /\ worker'.pc = "connect_src"
                /\ UNCHANGED <<threads, clock>>]_vars

\* A fire with one active and one soft-deleted client has started a single
\* thread, for the active client; its connect failed, it has logged ERRO and
\* is finished, and nothing else has been started since.
C15_Witness ==
    /\ clientes["c1"] /\ ~clientes["c2"]
    /\ clock = 1
    /\ Len(threads) = 1
    /\ threads[1].cliente = "c1"
    /\ Done(threads[1])
    /\ threads[1].ext = "connect_src_error"
    /\ Len(logs_execucao) = 1
    /\ logs_execucao[1].status = "ERRO"
    /\ manual_runs = 0

\* C17: in every transfer, scheduled or manual, the destination is connected
\* only when the source connection has been closed, and the outcome is
\* recorded (the log row appended, the outcome reported) only when no
\* connection the transfer opened is still open.
C17_StrictStepOrder ==
    \A r \in Runs :
       /\ DestOf(r.op) \in r.open => SourceOf(r.op) \notin r.open
       /\ r.pc \in {"connect_dst", "write", "report"} => SourceOf(r.op) \notin r.open
       /\ (r.logged # {} \/ r.outcome # "none") => r.open = {}

(***************************************************************************)
(* Properties of the local store (specifications SpecStore, SpecConfig     *)
(* and SpecClientes) and of the connection test (specification SpecTest).  *)
(***************************************************************************)

\* C16: in every interleaving of the threads, db_manager.conn is used by the
\* UI thread only, and a local-store call made by another thread has closed
\* the private connection it opened when it returns or raises.
C16_HandleOnlyOnUiThread ==
    /\ handle_users \subseteq {"ui"}
    /\ \A t \in StoreThreads \ {"ui"} :
          store_calls[t].pc \in {"returned", "raised"} => ~store_calls[t].conn

\* C18: every call of test_connection returns a success flag instead of
\* raising, and when it has returned, whatever the flag, the client holds no
\* open connection.
C18_TestLeavesDisconnected ==
    \A i \in DOMAIN test_clients :
       LET c == test_clients[i] IN
       /\ c.pc = "returned" => c.result \in {"true", "false"}
       /\ c.pc = "returned" => ~c.connection

\* C19: once a call of save_oriontax_config has succeeded, config_oriontax
\* has exactly one row with is_active set, it is the row the latest
\* successful call inserted, get_oriontax_config returns it, and the rows of
\* the earlier successful calls are still in the table.
C19_OneActiveConfig ==
    LET succeeded == {i \in DOMAIN save_results : save_results[i].ok}
        active == {i \in DOMAIN config_oriontax_table : config_oriontax_table[i].is_active}
    IN
    succeeded # {} =>
       LET latest == save_results[CHOOSE i \in succeeded : \A j \in succeeded : j <= i].row
       IN
       /\ Cardinality(active) = 1
       /\ \A i \in active : config_oriontax_table[i].id = latest
       /\ get_oriontax_config = latest
       /\ \A i \in succeeded :
             \E k \in DOMAIN config_oriontax_table :
                config_oriontax_table[k].id = save_results[i].row

\* C20: after every create, update and soft delete, every stored cnpj
\* consists of exactly 14 decimal digits and no two rows, active or
\* soft-deleted, share a cnpj; and a create or update whose cnpj does not
\* normalise to 14 digits, or is the cnpj of another row, returns False and
\* leaves the table as it was.
C20_CnpjNormalisedAndUnique ==
    [][/\ \A i \in DOMAIN clientes_table' :
             /\ Len(clientes_table'[i].cnpj) = 14
             /\ \A k \in 1..Len(clientes_table'[i].cnpj) :
                   clientes_table'[i].cnpj[k] \in DigitChars
       /\ \A i, j \in DOMAIN clientes_table' :
             clientes_table'[i].cnpj = clientes_table'[j].cnpj => i = j
       /\ (/\ cliente_result'.fn \in {"create_cliente", "update_cliente"}
           /\ \/ Len(cnpj_limpo(cliente_result'.cnpj)) # 14
              \/ \E i \in DOMAIN clientes_table :
                    /\ clientes_table[i].id # cliente_result'.id
                    /\ clientes_table[i].cnpj = cnpj_limpo(cliente_result'.cnpj))
          => /\ ~cliente_result'.ok
             /\ clientes_table' = clientes_table]_vars


(***************************************************************************)
(* C21: change_password for a name that is unknown or inactive, or with an *)
(* old password that does not verify, returns (false, message) and leaves  *)
(* every password_hash as it was; after it returns (true, message),        *)
(* authenticate succeeds with the new password and fails with the old one. *)
(* As stated this fails when the new password is the old one, or differs   *)
(* from it only after the 72 bytes bcrypt hashes.                          *)
(***************************************************************************)
C21_ChangeReplacesPassword ==
    [][LET r == password_result' IN
         /\ (\/ ~active_user(usuarios, r.username)
             \/ ~verify_password(r.old, usuarios[r.username].password_hash))
               => (~r.ok /\ usuarios' = usuarios)
         /\ r.ok => /\ authenticate_in(usuarios', r.username, r.new)
                    /\ ~authenticate_in(usuarios', r.username, r.old)]_vars

\* C21 as it holds: the old password stops working when it differs from
\* the new one within the 72 bytes bcrypt hashes.
C21_ChangeReplacesDistinctPassword ==
    [][LET r == password_result' IN
         /\ (\/ ~active_user(usuarios, r.username)
             \/ ~verify_password(r.old, usuarios[r.username].password_hash))
               => (~r.ok /\ usuarios' = usuarios)
         /\ r.ok => /\ authenticate_in(usuarios', r.username, r.new)
                    /\ (bcrypt_key(r.old) # bcrypt_key(r.new)
                          => ~authenticate_in(usuarios', r.username, r.old))]_vars

\* A change from one password to a different one went through: the new
\* one opens the account, the old one no longer does.
C21_Witness ==
    /\ password_result.ok
    /\ password_result.old # password_result.new
    /\ authenticate_user(password_result.username, password_result.new)
    /\ ~authenticate_user(password_result.username, password_result.old)

(***************************************************************************)
(* C22: the execution log is append-only across any interleaving of the    *)
(* threads that log, and recent_logs(N) returns the N most recently        *)
(* appended rows, newest first.                                            *)
(***************************************************************************)
LogsOnlyGrow ==
    /\ Len(logs_execucao') >= Len(logs_execucao)
    /\ \A i \in DOMAIN logs_execucao : logs_execucao'[i] = logs_execucao[i]

\* The first half of C22 on its own.
LogsAppendOnly == [][LogsOnlyGrow]_vars

\* The ids of the n rows appended last, the last one first.
NewestFirst(limit) ==
    LET n == IF limit < Len(logs_execucao) THEN limit ELSE Len(logs_execucao)
    IN [i \in 1..n |-> Len(logs_execucao) + 1 - i]

C22_RecentLogsNewestFirst ==
    [][/\ LogsOnlyGrow
       /\ recent_logs' # recent_logs
             => recent_logs'.ids = NewestFirst(recent_logs'.limit)]_vars

\* The same with the rows that share a second of created_at told apart by
\* their place in the answer being left open: what the query does ensure.
C22_RecentLogsBySecond ==
    [][/\ LogsOnlyGrow
       /\ recent_logs' # recent_logs
             => recent_logs'.ids \in OrderedByCreatedAt(recent_logs'.limit)]_vars

(***************************************************************************)
(* C23: every schedule saved through the dialog has a day in 0..6 when it  *)
(* is weekly, in 1..31 when it is monthly, and none when it is daily,      *)
(* whatever radio-button toggles and edits preceded the save.              *)
(***************************************************************************)
C23_SavedDayInRange ==
    \A id \in DOMAIN agendamentos :
        LET schedule == get_schedule(id) IN
        CASE schedule.schedule_type = "weekly" -> schedule.schedule_day \in 0..6
          [] schedule.schedule_type = "monthly" -> schedule.schedule_day \in 1..31
          [] OTHER -> schedule.schedule_day = NoDay

\* What the dialog does ensure: the spin box's own range, 0..31 for monthly.
C23_SavedDayInSpinRange ==
    \A id \in DOMAIN agendamentos :
        LET schedule == get_schedule(id) IN
        CASE schedule.schedule_type = "weekly" -> schedule.schedule_day \in 0..6
          [] schedule.schedule_type = "monthly" -> schedule.schedule_day \in 0..31
          [] OTHER -> schedule.schedule_day = NoDay

(***************************************************************************)
(* C24: a failure while creating the unique constraint does not abort the  *)
(* run and does not discard the upserts already executed for earlier       *)
(* tables; whenever write_dataframes_to_views returns (true, msg), the     *)
(* upserts of every table it processed are committed.                      *)
(***************************************************************************)
\* The rows the call upserts into table t when it processes the frame.
UpsertsOf(s, t) ==
    {Stored([s.dataframes[t][i] EXCEPT !.cnpj = s.cnpj], t) :
        i \in LastOccurrences(s.dataframes[t])}

C24_ConstraintFailureKeepsUpserts ==
    /\ [][\A w \in PgWriters :
            EnsureConstraintError(w) =>
                /\ pg_sessions'[w].pc = "upsert"
                /\ pg_sessions'[w].pend = pg_sessions[w].pend]_vars
    /\ [](\A w \in PgWriters :
            LET s == pg_sessions[w] IN
            (s.pc = "returned" /\ s.result) =>
                \A t \in PgTableNames : s.durable[t] = UpsertsOf(s, t))

\* What does hold: the failure does not abort the run, and a call that
\* returned (true, msg) has committed the upserts it executed after the last
\* rollback of _ensure_constraint_exists.
C24_ConstraintFailureGoesOn ==
    /\ [][\A w \in PgWriters :
            EnsureConstraintError(w) => pg_sessions'[w].pc = "upsert"]_vars
    /\ [](\A w \in PgWriters :
            LET s == pg_sessions[w] IN
            (s.pc = "returned" /\ s.result) =>
                /\ s.pend = NoPgRows
                /\ s.durable[PgMapping[2]] = UpsertsOf(s, PgMapping[2]))

EntradaEmptied(w) ==
    TmpCommit(w) => tmp_tables'["MXF_TMP_ICMS_ENTRADA"] = {}

C27_EntradaEmptyOthersReloaded ==
    [][\A w \in Writers :
         /\ EntradaEmptied(w)
         /\ TmpCommit(w) =>
               \A t \in TmpTableNames \ {"MXF_TMP_ICMS_ENTRADA"} :
                   tmp_tables'[t] = TmpRows(w, ora_sessions[w].n)]_vars

\* The half of C27 that holds however the calls overlap.
C27_EntradaEmpty == [][\A w \in Writers : EntradaEmptied(w)]_vars

\* The other half for a call that is the only one made.
C27_ReloadedWhenAlone ==
    [][\A w \in Writers :
         (TmpCommit(w) /\ \A y \in Writers \ {w} : ora_sessions[y].pc = "idle") =>
             \A t \in TmpTableNames \ {"MXF_TMP_ICMS_ENTRADA"} :
                 tmp_tables'[t] = TmpRows(w, ora_sessions[w].n)]_vars

(***************************************************************************)
(* C28: on the enterprise write path, for every cell: a text such as       *)
(* "12,5" in a NUMBER column is written as the number 12.5; a value equal, *)
(* case-insensitively and after trimming, to "null", "none", "nan" or the  *)
(* empty string is written as null in any column; an unparseable value in  *)
(* a NUMBER column is written as null and the row and the batch are still  *)
(* written.                                                                *)
(***************************************************************************)
NullWords ==
    {<<"n", "u", "l", "l">>, <<"n", "o", "n", "e">>, <<"n", "a", "n">>, <<>>}

\* The cell has been through clean_value and the three sentences hold of it.
CellWrittenAsClaimed(null_words) ==
    LET text == cell.value.chars IN
    (cell.pc \in {"cleaned", "written", "raised"} /\ cell.value.kind = "str") =>
        /\ (cell.number_column /\ text = <<"1", "2", ",", "5">>) =>
              cell.bound = Float(125, 1)
        /\ lower(strip(text)) \in null_words => cell.bound = NoneValue
        /\ (cell.number_column /\ float(replace_comma(text)) = ValueError) =>
              /\ cell.bound = NoneValue
              /\ cell.pc # "raised"

C28_CellsCleaned == CellWrittenAsClaimed(NullWords)

\* The same with "nan" taken as a null only where the code does: spelled
\* "nan" or "NaN" with nothing around it.
C28_CellsCleanedExactNan ==
    /\ CellWrittenAsClaimed(NullWords \ {<<"n", "a", "n">>})
    /\ (cell.pc \in {"cleaned", "written", "raised"}
          /\ cell.value \in {Str(<<"n", "a", "n">>), Str(<<"N", "a", "N">>)})
       => cell.bound = NoneValue

(***************************************************************************)
(* C29: after save_oracle_config succeeds for any name, in any sequence of *)
(* saves under several names (re-saving an older name included), the       *)
(* configuration get_oracle_config() without a name returns, which manual  *)
(* and scheduled transfers use, is the configuration that was saved last.  *)
(***************************************************************************)
LastSaved == oracle_saved[Len(oracle_saved)]

C29_ReadsLastSaved ==
    oracle_saved # <<>> =>
        \A config \in get_oracle_config :
            /\ config.nome_conexao = LastSaved.nome_conexao
            /\ config.host = LastSaved.host

\* What holds instead: the row returned is one created last, with the
\* values saved last under its own name; and a read by name returns the
\* values saved last under that name.
LastSavedAs(nome_conexao) ==
    LET at == {i \in DOMAIN oracle_saved : oracle_saved[i].nome_conexao = nome_conexao}
    IN oracle_saved[CHOOSE i \in at : \A j \in at : j <= i]

C29_ReadsNewestCreated ==
    oracle_saved # <<>> =>
        /\ \A config \in get_oracle_config :
              /\ config.host = LastSavedAs(config.nome_conexao).host
              /\ \A i \in DOMAIN config_oracle_table :
                    config_oracle_table[i].created_at <= config.created_at
        /\ \A config \in get_oracle_config_named(LastSaved.nome_conexao) :
              config.host = LastSaved.host

(***************************************************************************)
(* C30: at most one manual transfer is in flight at any time: from the     *)
(* moment a manual send or fetch is launched both action buttons stay      *)
(* disabled, no second worker can be started, and on every outcome of the  *)
(* worker (success, returned failure or exception) the completion callback *)
(* eventually runs and re-enables both buttons.                            *)
(***************************************************************************)
\* A worker has been started and its finished signal has not been handled.
ManualInFlight == worker.pc \notin {"idle", "done"} \/ finished_signal # <<>>

ButtonsDisabled == ~send_button /\ ~receive_button

\* The worker, once it has an outcome, has had its callback run.
WorkerHandled(ext) ==
    /\ worker.pc = "done"
    /\ worker.ext = ext
    /\ finished_signal = <<>>
    /\ send_button
    /\ receive_button

WorkerOutcomes ==
    {"connect_src_error", "read_error", "connect_dst_error",
     "write_true", "write_false", "write_error"}

C30_OneManualTransfer ==
    /\ [](ManualInFlight => ButtonsDisabled)
    /\ [](Len(finished_signal) <= 1)
    /\ [][ManualInFlight =>
            /\ manual_runs' = manual_runs
            /\ worker'.op = worker.op
            /\ worker'.cliente = worker.cliente
            /\ worker'.pc = "connect_src" => worker' = worker]_vars
    /\ ManualInFlight ~> (~ManualInFlight /\ send_button /\ receive_button)
    /\ \A ext \in WorkerOutcomes :
          (ManualInFlight /\ worker.ext = ext) ~> WorkerHandled(ext)

C30_Witness == manual_runs = 2 /\ WorkerHandled("write_error")


====
